---- MODULE Spec2Model ----
(***************************************************************************)
(* A model of go-continuous-fuzz: the cycle controller (runFuzzingCycles), *)
(* the scheduler (scheduleFuzzing), the worker group and its task queue,   *)
(* the sandbox life cycle (Container / K8sJob) and the crash issues kept   *)
(* in the issue tracker (GitHubRepo).                                      *)
(*                                                                         *)
(* Durations are whole seconds.  The outcome of every call that leaves the *)
(* process (git, S3, Docker / Kubernetes, GitHub) is chosen by the         *)
(* environment; a call that is handed a context fails once that context is *)
(* canceled.                                                               *)
(***************************************************************************)
EXTENDS Integers, Sequences, FiniteSets, TLC

(***************************************************************************)
(* Bounds of the model.                                                    *)
(***************************************************************************)
NumWorkers == 2
MaxTargets == 2
MaxCycles == 2
MaxQueueOps == 4
MaxSync == 12
MaxBudgetWorkers == 3
MaxBudgetTargets == 5
MaxDays == 2
MaxUpdates == 3
MaxPkgs == 2
MaxPkgsPath == 2
MaxFuzz == 2
MaxLines == 4

Workers == 1..NumWorkers
Tasks == 1..MaxTargets
Sites == {"parser.go:42"}

(***************************************************************************)
(* The two worked examples of the per-target budget: 3h37m53s with 7       *)
(* workers and 43 targets, and 3m with 3 workers and 5 targets.            *)
(***************************************************************************)
ExampleBudgets == {<<13073, 7, 43>>, <<180, 3, 5>>}

VARIABLES
    \* ---- application and cycle contexts
    parentCanceled,   \* appCtx of main.run is canceled (SIGINT / SIGTERM)
    cycleCanceled,    \* cancelCycle() was called for schedulerCtx
    groupCanceled,    \* the errgroup context workerCtx is canceled
    \* ---- runFuzzingCycles
    ctrl,             \* position of the controller
    cycle,            \* schedulers launched so far under fuzz.iterations > 0
                      \* (the loop itself keeps no count: 0 without a cap)
    ret,              \* what runFuzzingCycles returned: "none", "nil", an error
    uploaded,         \* objects put in the store by the current cycle
    errChan,          \* the cycle's result channel (capacity 1)
    \* ---- scheduleFuzzing
    sched,            \* position of the scheduler goroutine
    schedResult,      \* what the scheduler sent on errChan in this cycle
    syncFrequency,    \* cfg.Fuzz.SyncFrequency, seconds
    numWorkers,       \* cfg.Fuzz.NumWorkers
    cycleTimer,       \* what the timer of the cycle was set to, in ms
    iterations,       \* cfg.Fuzz.Iterations
    totalTargets,     \* taskQueue.Length() when the budget is computed
    perTargetTimeout, \* result of calculateFuzzSeconds, seconds
    indexUpdates,     \* how often addToMaster was called in this cycle
    taskQueue,        \* TaskQueue.tasks
    \* ---- workers
    wpc,              \* position of each worker
    cur,              \* the task a worker holds (0: none)
    vcur,             \* failure site of the issue being replayed, or "none"
    vq,               \* open issues a worker still has to verify
    running,          \* sandboxes a worker started and has not stopped
    handled,          \* what handleCrash did for the worker's task
    wres,             \* what runWorker returned: "none", "nil" or an error
    groupErr,         \* the first error the errgroup recorded ("none": none)
    \* ---- issue tracker
    openIssues,       \* open issues per title (task, failure site)
    created,          \* per title: 1 when an issue was ever created, else 0
    closeComment,     \* per title: 1 when its newest issue has the comment
    \* ---- history
    dequeues,         \* how often Dequeue returned each task in this cycle
    targetDone,       \* how executeFuzzTarget returned nil for each task
    failingInputs,    \* per task: the engine's failing inputs lie in
                      \* <SrcDir>/<pkg>/testdata/fuzz/<target>
    enqueued,         \* queue harness: every task enqueued, in order
    dequeued,         \* queue harness: every task dequeued, in order
    \* ---- coverage reports
    history,          \* a target's history file: entries, newest first
    today,            \* the date time.Now() gives
    updateLog,        \* every updateTarget call so far: its date and outcome
    masterState,      \* state.json: the saved master state
    newState,         \* the targets discovered by the last cycle
    \* ---- crash reports
    fuzzOutput,       \* the lines of the log stream of a fuzz run
    corpusFile,       \* the failing input files in the corpus directory
    crashPc,          \* "scan", "handle", "verify", "done", or "failed"
                      \* when processFuzzStream returned an error
    crash,            \* the fuzzCrash built from the output
    issueTitle,       \* title of the issue handleCrash composes
    issueBody,        \* body of the issue handleCrash composes
    parsed,           \* what parseIssueBody gives for the body
    \* ---- MinimizeCorpus
    minPc,            \* "idle", "list", "loop", "done" (returned nil) or
                      \* "failed" (returned an error)
    corpusTargetDir,  \* the files of <corpusDir>/<target>: name -> size
    cacheCorpusDir,   \* the names of the files of <cacheDir>/<target>
    fileInfos,        \* the slice files after sort.Slice, as names
    fileIdx,          \* how many elements of it the loop has passed
    bestCoverage,     \* bestCoverage
    newCoverage,      \* newCoverage of the last measurement (-1: none)
    removedCount,     \* removedCount
    warned,           \* how often "coverage decreased" was logged
    observed,         \* every coverage MeasureCoverage has returned
    keptOn,           \* the cache set and the coverage of the last
                      \* measurement after which a file was kept
    \* ---- the time a cycle takes
    clock,            \* seconds since the timer of the cycle was set
    busyUntil,        \* per worker: when fuzzCtx of its run expires; -1
                      \* between two runs, -2 once runWorker returned
    \* ---- steps 1 and 2 of a cycle, and the S3 bucket
    prepPc,           \* "idle", "cleanup", "clone", "corpus", "unzip",
                      \* "reports", "launch" (step 3 is next) or "failed"
    bucket,           \* the keys of the objects of cfg.Project.S3BucketName
    corpusDir,        \* the local corpus: "none", "stale" or "fresh"
    reportDir,        \* the keys of the files under the local reportDir
    pageItems         \* the keys downloadReports still has to go through

vars == <<parentCanceled, cycleCanceled, groupCanceled, ctrl, cycle, ret,
          uploaded, errChan, sched, schedResult, syncFrequency, numWorkers,
          cycleTimer,
          iterations, totalTargets, perTargetTimeout, indexUpdates, taskQueue,
          wpc, cur,
          vcur, vq, running, handled, wres, groupErr, openIssues, created,
          closeComment, dequeues, targetDone, failingInputs, enqueued, dequeued, history, today,
          updateLog, masterState, newState, fuzzOutput, corpusFile, crashPc,
          crash, issueTitle, issueBody, parsed, minPc, corpusTargetDir,
          cacheCorpusDir, fileInfos, fileIdx, bestCoverage, newCoverage,
          removedCount, warned, observed, keptOn, clock, busyUntil,
          prepPc, bucket, corpusDir, reportDir, pageItems>>

ctxVars == <<parentCanceled, cycleCanceled, groupCanceled>>
ctrlVars == <<ctrl, cycle, ret, uploaded, errChan>>
schedVars == <<sched, schedResult, totalTargets, perTargetTimeout,
               indexUpdates>>
\* The configuration, and the timer of the cycle, which is set from it.
cfgVars == <<syncFrequency, numWorkers, iterations, cycleTimer>>
workerVars == <<wpc, cur, vcur, vq, running, handled, wres, groupErr>>
histVars == <<dequeues, targetDone, failingInputs>>
issueVars == <<openIssues, created, closeComment>>
reportVars == <<history, today, updateLog>>
masterVars == <<masterState, newState>>
crashVars == <<fuzzOutput, corpusFile, crashPc, crash, issueTitle, issueBody,
               parsed>>
minVars == <<minPc, corpusTargetDir, cacheCorpusDir, fileInfos, fileIdx,
             bestCoverage, newCoverage, removedCount, warned, observed,
             keptOn>>
timeVars == <<clock, busyUntil>>
storeVars == <<prepPc, bucket, corpusDir, reportDir, pageItems>>
harnessVars == <<enqueued, dequeued, reportVars, masterVars, crashVars,
                 minVars, timeVars,
                   storeVars>>

(***************************************************************************)
(* TaskQueue: a mutex-guarded FIFO.  Every method holds q.mu for its whole *)
(* body, so each is one atomic step.                                       *)
(***************************************************************************)
NewTaskQueue == <<>>

Enqueue(q, t) == Append(q, t)

Length(q) == Len(q)

DequeueOk(q) == Len(q) # 0

\* Mutation of DequeueReturns: Dequeue waits for a task on an empty queue.
DequeueWaitsForTask(q) == Len(q) # 0

\* Dequeue waits for nothing but q.mu: it returns on every queue.
DequeueReturns(q) == TRUE

\* Mutation of DequeueTask: the last task of the queue instead of the first.
DequeueTaskFromTail(q) == q[Len(q)]

DequeueTask(q) == q[1]

\* Mutation of DequeueRest: the returned task stays in the queue.
DequeueRestKeepingHead(q) == q

DequeueRest(q) == IF Len(q) = 0 THEN q ELSE SubSeq(q, 2, Len(q))

\* Mutation of TasksPerWorker: one task too many when the targets divide
\* evenly among the workers.
TasksPerWorkerPlusOne(workers, targets) == (targets + workers) \div workers

(***************************************************************************)
(* calculateFuzzSeconds: the sync frequency divided by the largest number  *)
(* of tasks that falls to one worker.  Go's integer division truncates,    *)
(* which on non-negative operands is \div.                                 *)
(***************************************************************************)
TasksPerWorker(workers, targets) == (targets + workers - 1) \div workers

calculateFuzzSeconds(sync, workers, targets) ==
    sync \div TasksPerWorker(workers, targets)

(***************************************************************************)
(* Contexts.  schedulerCtx is a child of the application context;          *)
(* workerCtx (errgroup.WithContext) is a child of schedulerCtx.            *)
(***************************************************************************)
schedulerCtxDone == parentCanceled \/ cycleCanceled

workerCtxDone == schedulerCtxDone \/ groupCanceled

(***************************************************************************)
(* Values every specification starts from.                                 *)
(***************************************************************************)
NoIssues == [t \in Tasks |-> [s \in Sites |-> 0]]

IdleWorkers ==
    /\ wpc = [w \in Workers |-> "idle"]
    /\ cur = [w \in Workers |-> 0]
    /\ vcur = [w \in Workers |-> "none"]
    /\ vq = [w \in Workers |-> {}]
    /\ running = [w \in Workers |-> 0]
    /\ handled = [w \in Workers |-> "none"]
    /\ wres = [w \in Workers |-> "none"]
    /\ groupErr = "none"

NoCrash == [errorLogs |-> <<>>, failingInput |-> <<>>,
            failureFileAndLine |-> <<>>]
NotParsed == [err |-> "none", failingInput |-> <<>>]
NotKept == [cache |-> {}, coverage |-> 0]

NoFuzzOutput == fuzzOutput = <<>> /\ corpusFile = <<>>
NoCorpus == minPc = "idle" /\ corpusTargetDir = <<>>

InitProgram ==
    /\ parentCanceled = FALSE
    /\ cycleCanceled = FALSE
    /\ groupCanceled = FALSE
    /\ ctrl = "prepare"
    /\ cycle = 0
    /\ ret = "none"
    /\ uploaded = {}
    /\ errChan = <<>>
    /\ sched = "idle"
    /\ schedResult = "none"
    /\ perTargetTimeout = -1
    /\ indexUpdates = 0
    /\ cycleTimer = -1
    /\ taskQueue = NewTaskQueue
    /\ IdleWorkers
    /\ openIssues = NoIssues
    /\ created = NoIssues
    /\ closeComment = NoIssues
    /\ dequeues = [t \in Tasks |-> 0]
    /\ targetDone = [t \in Tasks |-> "none"]
    /\ failingInputs = [t \in Tasks |-> FALSE]
    /\ enqueued = <<>>
    /\ dequeued = <<>>
    /\ history = <<>>
    /\ today = 1
    /\ updateLog = <<>>
    /\ masterState = <<>>
    /\ newState = <<>>
    /\ crashPc = "scan"
    /\ crash = NoCrash
    /\ issueTitle = <<>>
    /\ issueBody = <<>>
    /\ parsed = NotParsed
    /\ cacheCorpusDir = {}
    /\ fileInfos = <<>>
    /\ fileIdx = 0
    /\ bestCoverage = 0
    /\ newCoverage = -1
    /\ removedCount = 0
    /\ warned = 0
    /\ observed = {}
    /\ keptOn = NotKept
    /\ clock = 0
    /\ busyUntil = <<>>
    /\ prepPc = "idle"
    /\ bucket = {}
    /\ corpusDir = "none"
    /\ reportDir = {}
    /\ pageItems = {}

(***************************************************************************)
(* Queue harness: any interleaving of Enqueue and Dequeue on one           *)
(* TaskQueue, with the tasks handed in and the results handed out logged.  *)
(* A Dequeue on the empty queue returns (Task{}, false), logged as 0.      *)
(***************************************************************************)
InitQueue ==
    /\ InitProgram
    /\ NoCorpus
    /\ NoFuzzOutput
    /\ syncFrequency = 0
    /\ numWorkers = NumWorkers
    /\ iterations = 0
    /\ totalTargets = 0

QueueEnqueue(t) ==
    /\ Len(enqueued) < MaxQueueOps
    /\ taskQueue' = Enqueue(taskQueue, t)
    /\ enqueued' = Append(enqueued, t)
    /\ UNCHANGED <<ctxVars, ctrlVars, schedVars, cfgVars, workerVars,
                   issueVars, histVars, dequeued, reportVars, masterVars,
                   crashVars,
                   minVars, timeVars,
                   storeVars>>

QueueDequeue ==
    /\ Len(dequeued) < MaxQueueOps
    /\ DequeueReturns(taskQueue)
    /\ dequeued' = Append(dequeued, IF DequeueOk(taskQueue)
                                      THEN DequeueTask(taskQueue) ELSE 0)
    /\ taskQueue' = DequeueRest(taskQueue)
    /\ UNCHANGED <<ctxVars, ctrlVars, schedVars, cfgVars, workerVars,
                   issueVars, histVars, enqueued, reportVars, masterVars,
                   crashVars,
                   minVars, timeVars,
                   storeVars>>

NextQueue == (\E t \in Tasks : QueueEnqueue(t)) \/ QueueDequeue

SpecQueue == InitQueue /\ [][NextQueue]_vars

(***************************************************************************)
(* Budget harness: calculateFuzzSeconds applied to a configuration.        *)
(***************************************************************************)
BudgetInputs ==
    {<<s, w, t>> : s \in 0..MaxSync, w \in 1..MaxBudgetWorkers,
                   t \in 1..MaxBudgetTargets} \cup ExampleBudgets

InitBudget ==
    /\ InitProgram
    /\ NoCorpus
    /\ NoFuzzOutput
    /\ \E b \in BudgetInputs :
        /\ syncFrequency = b[1]
        /\ numWorkers = b[2]
        /\ totalTargets = b[3]
    /\ iterations = 0

BudgetCalculate ==
    /\ perTargetTimeout = -1
    /\ perTargetTimeout' =
           calculateFuzzSeconds(syncFrequency, numWorkers, totalTargets)
    /\ UNCHANGED <<ctxVars, ctrlVars, sched, schedResult, totalTargets,
                   indexUpdates, cfgVars, taskQueue, workerVars, issueVars, histVars,
                   harnessVars>>

NextBudget == BudgetCalculate

SpecBudget == InitBudget /\ [][NextBudget]_vars

(***************************************************************************)
(* History harness: updateTarget on one target's history file, called on   *)
(* dates that the clock moves freely.  A date is a day number; the report  *)
(* path is <target>/<date>.html and updateTarget takes the date back out   *)
(* of the path.                                                            *)
(***************************************************************************)
Dates == 1..MaxDays
Coverages == {"61.5", "80.0"}

reportHTMLPath(d) == <<"target", d, ".html">>

\* strings.TrimSuffix(filepath.Base(path), ".html")
currentDate(path) == path[2]

newEntry(path, cov) ==
    [Date |-> currentDate(path), Coverage |-> cov, ReportPath |-> path]

\* Mutation of HasEntryFor: the history is never looked at.
HasEntryForNever(h, d) == FALSE

\* len(history) > 0 && history[0].Date == currentDate
HasEntryFor(h, d) == Len(h) > 0 /\ h[1].Date = d

\* The history updateTarget writes back, given the one it loaded.
updateTarget(h, path, cov) ==
    IF HasEntryFor(h, currentDate(path))
      THEN h
      ELSE <<newEntry(path, cov)>> \o h

UpdateOutcomes == {"ok", "parseError", "writeError", "renderError"}

InitHistory ==
    /\ InitProgram
    /\ NoCorpus
    /\ NoFuzzOutput
    /\ syncFrequency = 0
    /\ numWorkers = NumWorkers
    /\ iterations = 0
    /\ totalTargets = 0

\* One call of updateTarget.  The history file is rewritten unless parsing
\* it or writing it fails; a failure to render the HTML comes after the
\* write.
HistoryUpdate ==
    /\ Len(updateLog) < MaxUpdates
    /\ \E cov \in Coverages, out \in UpdateOutcomes :
        /\ history' = IF out \in {"parseError", "writeError"}
                        THEN history
                        ELSE updateTarget(history, reportHTMLPath(today), cov)
        /\ updateLog' = Append(updateLog, <<today, out>>)
    /\ UNCHANGED <<ctxVars, ctrlVars, schedVars, cfgVars, taskQueue,
                   workerVars, issueVars, histVars, enqueued, dequeued,
                   today, masterVars, crashVars,
                   minVars, timeVars,
                   storeVars>>

ClockSet(d) ==
    /\ d # today
    /\ today' = d
    /\ UNCHANGED <<ctxVars, ctrlVars, schedVars, cfgVars, taskQueue,
                   workerVars, issueVars, histVars, enqueued, dequeued,
                   history, updateLog, masterVars, crashVars,
                   minVars, timeVars,
                   storeVars>>

NextHistory == HistoryUpdate \/ (\E d \in Dates : ClockSet(d))

SpecHistory == InitHistory /\ [][NextHistory]_vars

(***************************************************************************)
(* Master state harness: target discovery as scheduleFuzzing does it,      *)
(* followed by addToMaster on the saved state.  A package path and a       *)
(* target name are each stood for by their rank in string order.           *)
(***************************************************************************)
Pkgs == 1..MaxPkgs

\* cfg.Fuzz.PkgsPath: the configured list, which is used as given.
PkgsPaths == UNION {[1..k -> Pkgs] : k \in 1..MaxPkgsPath}

\* The targets `go test -list` prints for a package with k fuzz targets,
\* in the order of the source file.
listFuzzTargets(k) == [i \in 1..k |-> k + 1 - i]

RECURSIVE Discover(_, _)
Discover(pkgsPath, count) ==
    IF pkgsPath = <<>>
      THEN <<>>
      ELSE LET pkg == Head(pkgsPath)
               targets == listFuzzTargets(count[pkg])
           IN  [i \in 1..Len(targets) |-> <<pkg, targets[i]>>]
                   \o Discover(Tail(pkgsPath), count)

\* The inner loop of addToMaster: is the pair in the loaded state?
IsDuplicate(new, existState) ==
    \E i \in 1..Len(existState) :
        new[1] = existState[i][1] /\ new[2] = existState[i][2]

RECURSIVE AppendNew(_, _, _)
AppendNew(states, existState, new) ==
    IF new = <<>>
      THEN states
      ELSE AppendNew(IF IsDuplicate(Head(new), existState)
                       THEN states
                       ELSE Append(states, Head(new)),
                     existState, Tail(new))

\* The less function handed to sort.Slice.
StateLess(a, b) == IF a[1] = b[1] THEN a[2] < b[2] ELSE a[1] < b[1]

RECURSIVE InsertState(_, _)
InsertState(x, sorted) ==
    IF sorted = <<>> \/ StateLess(x, Head(sorted))
      THEN <<x>> \o sorted
      ELSE <<Head(sorted)>> \o InsertState(x, Tail(sorted))

RECURSIVE SortStates(_)
SortStates(states) ==
    IF states = <<>> THEN <<>>
    ELSE InsertState(Head(states), SortStates(Tail(states)))

\* The state addToMaster saves, given the loaded one and the new targets.
addToMaster(existState, new) ==
    SortStates(AppendNew(existState, existState, new))

InitMaster ==
    /\ InitProgram
    /\ NoCorpus
    /\ NoFuzzOutput
    /\ syncFrequency = 0
    /\ numWorkers = NumWorkers
    /\ iterations = 0
    /\ totalTargets = 0

\* One cycle's discovery and master update; with no target at all the
\* scheduler gives up before addToMaster, and a state file that cannot be
\* loaded or saved is left as it is.
MasterAdd ==
    \E pkgsPath \in PkgsPaths, count \in [Pkgs -> 0..MaxFuzz],
       ok \in BOOLEAN :
        /\ newState' = Discover(pkgsPath, count)
        /\ masterState' = IF ok /\ newState' # <<>>
                            THEN addToMaster(masterState, newState')
                            ELSE masterState
        /\ UNCHANGED <<ctxVars, ctrlVars, schedVars, cfgVars, taskQueue,
                       workerVars, issueVars, histVars, enqueued, dequeued,
                       reportVars, crashVars,
                   minVars, timeVars,
                   storeVars>>

NextMaster == MasterAdd

SpecMaster == InitMaster /\ [][NextMaster]_vars

(***************************************************************************)
(* Crash harness: the output processor builds a fuzzCrash from the lines   *)
(* that follow the failure marker, handleCrash composes the issue, and     *)
(* the verification of a later cycle parses the body again.  A text is a   *)
(* sequence of pieces; NL is the newline and no other piece holds one.     *)
(***************************************************************************)
NL == "\n"
Fence == "~~~"
GoFiles == {"stringutils_test.go", "parser.go"}
LineNumbers == {"17", "42"}
FuzzTarget == "FuzzReverseString"
FuzzPkg == "stringutils"

\* Lines a fuzz target can print.
FailMarker == "--- FAIL:"
FailLine == <<FailMarker, " FuzzReverseString (0.01s)">>
SiteLine(f, n) == <<"    ", f, ":", n, ": Reverse produced invalid UTF-8 string">>
InputIds == {"771e938e4458e983", "0a1b2c3d4e5f6a7b"}
InputLine(id) ==
    <<"Failing input written to testdata/fuzz/", FuzzTarget, "/", id>>
OutputLines ==
    {FailLine, SiteLine("stringutils_test.go", "17"), SiteLine("parser.go", "42"),
     <<"## Failing testcase">>, <<Fence, "sh">>, <<"bogus">>, <<Fence>>}
        \cup {InputLine(id) : id \in InputIds}

FuzzOutputs == UNION {[1..k -> OutputLines] : k \in 1..MaxLines}

\* What the fuzzer writes as a failing input, and the corpus directory:
\* the files of the inputs that are there when they are read.
FileContent(id) == <<"go test fuzz v1", NL, "string(\"", id, "\")", NL>>
CorpusFiles == {[id \in present |-> FileContent(id)] : present \in SUBSET InputIds}

\* strings.Contains(line, "--- FAIL:")
ContainsFail(line) == \E i \in 1..Len(line) : line[i] = FailMarker

\* scanUntilFailure: the number of lines read up to and with the first that
\* holds the marker, 0 when the stream ends without one.
RECURSIVE scanUntilFailure(_)
scanUntilFailure(lines) ==
    IF lines = <<>> THEN 0
    ELSE IF ContainsFail(Head(lines)) THEN 1
    ELSE IF scanUntilFailure(Tail(lines)) = 0 THEN 0
    ELSE 1 + scanUntilFailure(Tail(lines))

\* What is left in the scanner for processFailureLines.
AfterFailure(lines) ==
    SubSeq(lines, scanUntilFailure(lines) + 1, Len(lines))

\* fuzzFileLineRegex: optional white space, a .go file, a colon, digits.
\* The position of the file in a line that matches, 0 in one that does not.
fuzzFileLineRegex(line) ==
    IF \E i \in 1..(Len(line) - 2) :
           line[i] \in GoFiles /\ line[i + 1] = ":"
               /\ line[i + 2] \in LineNumbers
      THEN CHOOSE i \in 1..(Len(line) - 2) :
               line[i] \in GoFiles /\ line[i + 1] = ":"
                   /\ line[i + 2] \in LineNumbers
      ELSE 0

\* file + ":" + line, or the empty string.
parseFileAndLine(line) ==
    LET i == fuzzFileLineRegex(line)
    IN  IF i = 0 THEN <<>> ELSE <<line[i], ":", line[i + 2]>>

\* fuzzFailureRegex: does the line name the failing input file?
parseFailureLine(line) ==
    Len(line) = 4 /\ line[1] = "Failing input written to testdata/fuzz/"

\* The id that fuzzFailureRegex captures.
parseFailureId(line) == line[4]

\* readFailingInput: os.ReadFile of the input file; a file that is not
\* there is an error.
readFailingInput(files, id) ==
    IF id \in DOMAIN files THEN [err |-> "nil", data |-> files[id]]
                           ELSE [err |-> "failed to read", data |-> <<>>]

\* The reads of the loop of processFailureLines: the input of the first
\* line that names one, unless the data read so far is empty.
RECURSIVE firstFailingInput(_, _)
firstFailingInput(lines, files) ==
    IF lines = <<>> THEN [err |-> "nil", data |-> <<>>]
    ELSE IF ~parseFailureLine(Head(lines))
           THEN firstFailingInput(Tail(lines), files)
    ELSE LET read == readFailingInput(files, parseFailureId(Head(lines)))
         IN  IF read.err # "nil" \/ read.data # <<>>
               THEN read
               ELSE firstFailingInput(Tail(lines), files)

RECURSIVE failingLog(_)
failingLog(lines) ==
    IF lines = <<>> THEN <<>>
    ELSE Head(lines) \o <<NL>> \o failingLog(Tail(lines))

\* Mutation of firstFileLine: a later line that names a file and a line
\* replaces what an earlier one gave.
RECURSIVE lastFileLine(_)
lastFileLine(lines) ==
    IF lines = <<>> THEN <<>>
    ELSE IF lastFileLine(Tail(lines)) # <<>>
           THEN lastFileLine(Tail(lines))
           ELSE parseFileAndLine(Head(lines))

RECURSIVE firstFileLine(_)
firstFileLine(lines) ==
    IF lines = <<>> THEN <<>>
    ELSE IF parseFileAndLine(Head(lines)) # <<>>
           THEN parseFileAndLine(Head(lines))
           ELSE firstFileLine(Tail(lines))

processFailureLines(lines, files) ==
    [errorLogs |-> failingLog(lines),
     failingInput |-> firstFailingInput(lines, files).data,
     failureFileAndLine |-> firstFileLine(lines)]

\* The first 16 hex digits of the SHA-256 of the texts that occur as
\* failure sites, with and without a newline at the end.
ComputeSHA256Short(errorData) ==
    CASE errorData = <<"stringutils_test.go", ":", "17">> -> "42c3eb92e45ec7fd"
      [] errorData = <<"stringutils_test.go", ":", "17", NL>>
             -> "cfec419a119b189c"
      [] errorData = <<"parser.go", ":", "42">> -> "03c0666f823cefb6"
      [] errorData = <<"parser.go", ":", "42", NL>> -> "d0d1064bfc8e787f"
      [] errorData = <<>> -> "e3b0c44298fc1c14"
      [] errorData = <<NL>> -> "01ba4719c80b6fe9"

issueTitleOf(crashHash, pkg, target) ==
    <<"[fuzz/", crashHash, "] Fuzzing crash in ", pkg, "/", target>>

seedCorpusErrMsg == "seed corpus"
waterMark == "watermark"

\* The report as TestFormatCrashReport expects it.
formatCrashReport(errorLogs, failingInput) ==
    <<"## Error logs", NL, Fence, "sh", NL>> \o errorLogs
        \o <<Fence, NL, "## Failing testcase", NL, Fence, "sh", NL>>
        \o (IF failingInput = <<>> THEN <<seedCorpusErrMsg>>
                                   ELSE failingInput)
        \o <<NL, Fence, NL, waterMark, NL>>

\* failingInputRegex: the header "## Failing testcase\n~~~sh\n", the
\* shortest text, then "\n~~~"; the match is the leftmost one.
HeaderAt(body, i) ==
    /\ i + 4 <= Len(body)
    /\ SubSeq(body, i, i + 4) = <<"## Failing testcase", NL, Fence, "sh", NL>>

CloseAt(body, j) ==
    /\ j + 1 <= Len(body)
    /\ body[j] = NL
    /\ body[j + 1] = Fence

Matches(body, i, j) == HeaderAt(body, i) /\ j >= i + 5 /\ CloseAt(body, j)

parseIssueBody(body) ==
    IF \E i, j \in 1..Len(body) : Matches(body, i, j)
      THEN LET i == CHOOSE i \in 1..Len(body) :
                        /\ \E j \in 1..Len(body) : Matches(body, i, j)
                        /\ \A k \in 1..(i - 1) :
                               ~\E j \in 1..Len(body) : Matches(body, k, j)
               j == CHOOSE j \in 1..Len(body) :
                        /\ Matches(body, i, j)
                        /\ \A k \in 1..(j - 1) : ~Matches(body, i, k)
           IN  [err |-> "nil", failingInput |-> SubSeq(body, i + 5, j - 1)]
      ELSE [err |-> "failing testcase section not found",
            failingInput |-> <<>>]

InitCrash ==
    /\ InitProgram
    /\ NoCorpus
    /\ syncFrequency = 0
    /\ numWorkers = NumWorkers
    /\ iterations = 0
    /\ totalTargets = 0
    /\ fuzzOutput \in FuzzOutputs
    /\ corpusFile \in CorpusFiles

CrashScan ==
    /\ crashPc = "scan"
    /\ IF scanUntilFailure(fuzzOutput) = 0
         THEN /\ crash' = crash
              /\ crashPc' = "done"
         ELSE IF firstFailingInput(AfterFailure(fuzzOutput), corpusFile).err
                     # "nil"
                THEN /\ crash' = crash
                     /\ crashPc' = "failed"
                ELSE /\ crash' = processFailureLines(AfterFailure(fuzzOutput),
                                                     corpusFile)
                     /\ crashPc' = "handle"
    /\ UNCHANGED <<ctxVars, ctrlVars, schedVars, cfgVars, taskQueue,
                   workerVars, issueVars, histVars, enqueued, dequeued,
                   reportVars, masterVars, fuzzOutput, corpusFile,
                   issueTitle, issueBody, parsed,
                   minVars, timeVars,
                   storeVars>>

CrashHandle ==
    /\ crashPc = "handle"
    /\ issueTitle' = issueTitleOf(ComputeSHA256Short(crash.failureFileAndLine),
                                  FuzzPkg, FuzzTarget)
    /\ issueBody' = formatCrashReport(crash.errorLogs, crash.failingInput)
    /\ crashPc' = "verify"
    /\ UNCHANGED <<ctxVars, ctrlVars, schedVars, cfgVars, taskQueue,
                   workerVars, issueVars, histVars, enqueued, dequeued,
                   reportVars, masterVars, fuzzOutput, corpusFile, crash,
                   parsed,
                   minVars, timeVars,
                   storeVars>>

CrashVerify ==
    /\ crashPc = "verify"
    /\ parsed' = parseIssueBody(issueBody)
    /\ crashPc' = "done"
    /\ UNCHANGED <<ctxVars, ctrlVars, schedVars, cfgVars, taskQueue,
                   workerVars, issueVars, histVars, enqueued, dequeued,
                   reportVars, masterVars, fuzzOutput, corpusFile, crash,
                   issueTitle, issueBody,
                   minVars, timeVars,
                   storeVars>>

NextCrash == CrashScan \/ CrashHandle \/ CrashVerify

SpecCrash == InitCrash /\ [][NextCrash]_vars

(***************************************************************************)
(* Errors are modelled by what they report; "nil" is the nil error.        *)
(***************************************************************************)
IsError(r) == r \notin {"none", "nil"}

(***************************************************************************)
(* The timer of a cycle: SyncFrequency plus the grace period, which is a   *)
(* fifth of SyncFrequency and at most an hour.  SyncFrequency is held in   *)
(* seconds; a fifth of a whole second is a whole number of milliseconds,   *)
(* so the durations are computed in milliseconds.                          *)
(***************************************************************************)
OneHour == 3600
Millis(seconds) == seconds * 1000

\* Mutation of gracePeriod: a fifth of SyncFrequency, however long.
gracePeriodUncapped(sync) == Millis(sync) \div 5

gracePeriod(sync) ==
    IF Millis(sync) \div 5 < Millis(OneHour) THEN Millis(sync) \div 5
                                              ELSE Millis(OneHour)

cycleDeadline(sync) == Millis(sync) + gracePeriod(sync)

(***************************************************************************)
(* runFuzzingCycles.                                                       *)
(*                                                                         *)
(* Return(err) is a return statement of runFuzzingCycles.                  *)
(***************************************************************************)
Return(err) ==
    /\ ret' = err
    /\ ctrl' = "done"

(***************************************************************************)
(* Steps 1 and 2 of a cycle: clean up, clone the project, create the S3    *)
(* store and download corpus and reports.  Clone and download are handed   *)
(* the application context.                                                *)
(***************************************************************************)
CtrlPrepare ==
    /\ ctrl = "prepare"
    /\ cycle < MaxCycles
    /\ \E ok \in BOOLEAN :
        /\ ok => ~parentCanceled
        /\ IF ok THEN ctrl' = "launch" /\ ret' = ret
                 ELSE Return("prepare failed")
    /\ uploaded' = {}
    /\ failingInputs' = [t \in Tasks |-> FALSE]
    /\ UNCHANGED <<ctxVars, cycle, errChan, schedVars, cfgVars, taskQueue,
                   workerVars, issueVars, dequeues, targetDone, harnessVars>>

(***************************************************************************)
(* Step 3: schedulerCtx, errChan and the scheduler goroutine of the cycle. *)
(***************************************************************************)
CtrlLaunch ==
    /\ ctrl = "launch"
    /\ ctrl' = "select"
    /\ cycle' = IF iterations = 0 THEN cycle ELSE cycle + 1
    /\ cycleCanceled' = FALSE
    /\ groupCanceled' = FALSE
    /\ errChan' = <<>>
    /\ sched' = "discover"
    /\ schedResult' = "none"
    /\ taskQueue' = NewTaskQueue
    /\ wpc' = [w \in Workers |-> "idle"]
    /\ wres' = [w \in Workers |-> "none"]
    /\ groupErr' = "none"
    /\ dequeues' = [t \in Tasks |-> 0]
    /\ targetDone' = [t \in Tasks |-> "none"]
    /\ totalTargets' = 0
    /\ perTargetTimeout' = -1
    /\ indexUpdates' = 0
    /\ cycleTimer' = cycleDeadline(syncFrequency)
    /\ UNCHANGED <<parentCanceled, ret, uploaded, syncFrequency, numWorkers,
                   iterations, cur, vcur, vq, running, handled, issueVars,
                   failingInputs, harnessVars>>

(***************************************************************************)
(* Step 4, case <-time.After(SyncFrequency + gracePeriod): the deadline    *)
(* may elapse at any moment of the select.                                 *)
(***************************************************************************)
CtrlDeadline ==
    /\ ctrl = "select"
    /\ cycleCanceled' = TRUE
    /\ ctrl' = "drain"
    /\ UNCHANGED <<parentCanceled, groupCanceled, cycle, ret, uploaded,
                   errChan, schedVars, cfgVars, taskQueue, workerVars,
                   issueVars, histVars, harnessVars>>

\* Mutation of CtrlDrain: the result is received and, error or not, the
\* controller goes on to the upload.
CtrlDrainIgnoringError ==
    /\ ctrl = "drain"
    /\ errChan # <<>>
    /\ errChan' = Tail(errChan)
    /\ ctrl' = "persist"
    /\ UNCHANGED <<ctxVars, cycle, ret, uploaded, schedVars, cfgVars,
                   taskQueue, workerVars, issueVars, histVars, harnessVars>>

(***************************************************************************)
(* The receive that follows the deadline: an error is returned, nil goes   *)
(* on to the upload.                                                       *)
(***************************************************************************)
CtrlDrain ==
    /\ ctrl = "drain"
    /\ errChan # <<>>
    /\ errChan' = Tail(errChan)
    /\ IF IsError(Head(errChan))
         THEN Return(Head(errChan))
         ELSE ctrl' = "persist" /\ ret' = ret
    /\ UNCHANGED <<ctxVars, cycle, uploaded, schedVars, cfgVars, taskQueue,
                   workerVars, issueVars, histVars, harnessVars>>

(***************************************************************************)
(* Step 4, case <-ctx.Done(): cancel the cycle, then return what the       *)
(* scheduler sends.                                                        *)
(***************************************************************************)
CtrlShutdown ==
    /\ ctrl = "select"
    /\ parentCanceled
    /\ cycleCanceled' = TRUE
    /\ ctrl' = "shutdown"
    /\ UNCHANGED <<parentCanceled, groupCanceled, cycle, ret, uploaded,
                   errChan, schedVars, cfgVars, taskQueue, workerVars,
                   issueVars, histVars, harnessVars>>

\* Mutation of CtrlShutdownReturn: the controller returns without
\* receiving the scheduler's result.
CtrlShutdownReturnWithoutWaiting ==
    /\ ctrl = "shutdown"
    /\ Return("nil")
    /\ UNCHANGED <<ctxVars, cycle, uploaded, errChan, schedVars, cfgVars,
                   taskQueue, workerVars, issueVars, histVars, harnessVars>>

CtrlShutdownReturn ==
    /\ ctrl = "shutdown"
    /\ errChan # <<>>
    /\ errChan' = Tail(errChan)
    /\ Return(Head(errChan))
    /\ UNCHANGED <<ctxVars, cycle, uploaded, schedVars, cfgVars, taskQueue,
                   workerVars, issueVars, histVars, harnessVars>>

\* Mutation of CtrlResult: an error received in the select is dropped and
\* the controller goes on to the upload.
CtrlResultIgnoringError ==
    /\ ctrl = "select"
    /\ errChan # <<>>
    /\ errChan' = Tail(errChan)
    /\ cycleCanceled' = TRUE
    /\ ctrl' = "persist"
    /\ UNCHANGED <<parentCanceled, groupCanceled, cycle, ret, uploaded,
                   schedVars, cfgVars, taskQueue, workerVars, issueVars,
                   histVars, harnessVars>>

(***************************************************************************)
(* Step 4, case err := <-errChan.                                          *)
(***************************************************************************)
CtrlResult ==
    /\ ctrl = "select"
    /\ errChan # <<>>
    /\ errChan' = Tail(errChan)
    /\ cycleCanceled' = TRUE
    /\ IF IsError(Head(errChan))
         THEN Return(Head(errChan))
         ELSE ctrl' = "persist" /\ ret' = ret
    /\ UNCHANGED <<parentCanceled, groupCanceled, cycle, uploaded, schedVars,
                   cfgVars, taskQueue, workerVars, issueVars, histVars,
                   harnessVars>>

(***************************************************************************)
(* S3Store.uploadObject: the uploader is handed the application context.   *)
(***************************************************************************)
UploadMaySucceed == ~parentCanceled

(***************************************************************************)
(* Step 5, uploadCorpusAndReports: the corpus archive, then the reports.   *)
(***************************************************************************)
CtrlUploadCorpus ==
    /\ ctrl = "persist"
    /\ \E ok \in BOOLEAN :
        /\ ok => UploadMaySucceed
        /\ IF ok THEN /\ uploaded' = uploaded \cup {"corpus"}
                      /\ ctrl' = "persistReports"
                      /\ ret' = ret
                 ELSE /\ uploaded' = uploaded
                      /\ Return("upload failed")
    /\ UNCHANGED <<ctxVars, cycle, errChan, schedVars, cfgVars, taskQueue,
                   workerVars, issueVars, histVars, harnessVars>>

CtrlUploadReports ==
    /\ ctrl = "persistReports"
    /\ \E ok \in BOOLEAN :
        /\ ok => UploadMaySucceed
        /\ IF ok THEN /\ uploaded' = uploaded \cup {"reports"}
                      /\ ctrl' = "prepare"
                      /\ ret' = ret
                 ELSE /\ uploaded' = uploaded
                      /\ Return("upload failed")
    /\ UNCHANGED <<ctxVars, cycle, errChan, schedVars, cfgVars, taskQueue,
                   workerVars, issueVars, histVars, harnessVars>>

(***************************************************************************)
(* main.run: SIGINT or SIGTERM cancels the application context.            *)
(***************************************************************************)
ParentCancel ==
    /\ ~parentCanceled
    /\ ctrl # "done"
    /\ parentCanceled' = TRUE
    /\ UNCHANGED <<cycleCanceled, groupCanceled, ctrlVars, schedVars,
                   cfgVars, taskQueue, workerVars, issueVars, histVars,
                   harnessVars>>

(***************************************************************************)
(* main.run: the exit code of the program from what runFuzzingCycles       *)
(* returned.                                                               *)
(***************************************************************************)
ExitCode(r) == IF IsError(r) THEN 1 ELSE 0

(***************************************************************************)
(* scheduleFuzzing.                                                        *)
(*                                                                         *)
(* Send(r) is `errChan <- r; return`: the channel has capacity 1 and the   *)
(* scheduler sends once, so the send never blocks.                         *)
(***************************************************************************)
\* Mutation of Send: a scheduler whose context is done returns without
\* sending.
SendUnlessCanceled(r) ==
    /\ Len(errChan) < 1
    /\ errChan' = IF schedulerCtxDone THEN errChan ELSE Append(errChan, r)
    /\ schedResult' = r
    /\ sched' = "done"

Send(r) ==
    /\ Len(errChan) < 1
    /\ errChan' = Append(errChan, r)
    /\ schedResult' = r
    /\ sched' = "done"

(***************************************************************************)
(* The discovery loop: the targets of every configured package are         *)
(* enqueued in order (target k of the cycle is task k).                    *)
(***************************************************************************)
RECURSIVE EnqueueTargets(_, _, _)
EnqueueTargets(q, k, n) ==
    IF k > n THEN q ELSE EnqueueTargets(Enqueue(q, k), k + 1, n)

\* Mutation of InvalidDuration: no budget is refused.
InvalidDurationNever(budget) == FALSE

\* The check `perTargetTimeout == 0` of scheduleFuzzing.
InvalidDuration(budget) == budget = 0

\* Mutation of SchedDiscover: the empty-queue check is missing, and an
\* empty target set goes on to the set-up with the whole sync frequency as
\* budget.
SchedDiscoverWithoutEmptyCheck ==
    /\ sched = "discover"
    /\ \E listed \in BOOLEAN, n \in 0..MaxTargets :
        /\ ~listed => ~schedulerCtxDone /\ n = 0
        /\ LET q == EnqueueTargets(NewTaskQueue, 1, n)
               budget == IF Length(q) = 0
                           THEN syncFrequency
                           ELSE calculateFuzzSeconds(syncFrequency,
                                                     numWorkers, Length(q))
           IN  IF ~listed
                 THEN /\ Send("discovery failed")
                      /\ UNCHANGED <<taskQueue, totalTargets,
                                     perTargetTimeout>>
                 ELSE /\ taskQueue' = q
                      /\ totalTargets' = Length(q)
                      /\ perTargetTimeout' = budget
                      /\ IF budget = 0
                           THEN Send("invalid duration")
                           ELSE /\ sched' = "setup"
                                /\ UNCHANGED <<errChan, schedResult>>
    /\ UNCHANGED <<ctxVars, ctrl, cycle, ret, uploaded, indexUpdates, cfgVars,
                   workerVars, issueVars, histVars, harnessVars>>

(***************************************************************************)
(* Discovery, the empty-queue check and the budget.  listFuzzTargets       *)
(* reports a failed `go test -list` only while the context is live; with   *)
(* a canceled context the output it parses may hold any part of the        *)
(* targets, or none.                                                       *)
(***************************************************************************)
SchedDiscover ==
    /\ sched = "discover"
    /\ \E listed \in BOOLEAN, n \in 0..MaxTargets :
        /\ ~listed => ~schedulerCtxDone /\ n = 0
        /\ LET q == EnqueueTargets(NewTaskQueue, 1, n)
               budget == calculateFuzzSeconds(syncFrequency, numWorkers,
                                              Length(q))
           IN  IF ~listed
                 THEN /\ Send("discovery failed")
                      /\ UNCHANGED <<taskQueue, totalTargets,
                                     perTargetTimeout>>
                 ELSE /\ taskQueue' = q
                      /\ IF Length(q) = 0
                           THEN /\ Send("no fuzz targets")
                                /\ UNCHANGED <<totalTargets,
                                               perTargetTimeout>>
                           ELSE /\ totalTargets' = Length(q)
                                /\ perTargetTimeout' = budget
                                /\ IF InvalidDuration(budget)
                                     THEN Send("invalid duration")
                                     ELSE /\ sched' = "setup"
                                          /\ UNCHANGED <<errChan,
                                                         schedResult>>
    /\ UNCHANGED <<ctxVars, ctrl, cycle, ret, uploaded, indexUpdates, cfgVars,
                   workerVars, issueVars, histVars, harnessVars>>

\* Mutation of AfterSetup: the workers are started without addToMaster.
AfterSetupWithoutMaster(n, step) == n

\* addToMaster is the last call of the setup that can fail: a setup that
\* fails in an earlier call never reaches it.
AfterSetup(n, step) == IF step = "clientFailed" THEN n ELSE n + 1

\* Mutation of StartsWorker: the loop runs once more than numWorkers.
StartsWorkerOnceMore(workerID) == workerID <= numWorkers + 1

\* The loop of WorkersStartAndWait,
\* `for workerID := 1; workerID <= numWorkers; workerID++`.
StartsWorker(workerID) == workerID <= numWorkers

(***************************************************************************)
(* The sandbox client (and the image pull), extractRepo and addToMaster,   *)
(* then WorkersStartAndWait's loop: one goroutine per worker.              *)
(***************************************************************************)
SchedSetup ==
    /\ sched = "setup"
    /\ \E step \in {"started", "clientFailed", "masterFailed"} :
        /\ indexUpdates' = AfterSetup(indexUpdates, step)
        /\ IF step = "started"
             THEN /\ sched' = "wait"
                  /\ wpc' = [w \in Workers |->
                                IF StartsWorker(w) THEN "dequeue" ELSE "idle"]
                  /\ UNCHANGED <<errChan, schedResult>>
             ELSE /\ Send("setup failed")
                  /\ wpc' = wpc
    /\ UNCHANGED <<ctxVars, ctrl, cycle, ret, uploaded, totalTargets,
                   perTargetTimeout, cfgVars, taskQueue, cur, vcur, vq,
                   running, handled, wres, groupErr, issueVars, histVars,
                   harnessVars>>

(***************************************************************************)
(* goGroup.Wait returns when every worker has returned; it cancels the     *)
(* group context and yields the first error.                               *)
(***************************************************************************)
\* Mutation of GroupWaitReturns: Wait returns with the first worker.
GroupWaitReturnsWithFirst == \E w \in 1..numWorkers : wres[w] # "none"

\* goGroup.Wait blocks until every function passed to Go has returned.
GroupWaitReturns == \A w \in 1..numWorkers : wres[w] # "none"

SchedWait ==
    /\ sched = "wait"
    /\ GroupWaitReturns
    /\ groupCanceled' = TRUE
    /\ Send(IF IsError(groupErr) THEN groupErr ELSE "nil")
    /\ UNCHANGED <<parentCanceled, cycleCanceled, ctrl, cycle, ret, uploaded,
                   totalTargets, perTargetTimeout, indexUpdates, cfgVars,
                   taskQueue, workerVars, issueVars, histVars, harnessVars>>

\* Mutation of WorkerReturn: the group keeps the last error it was given,
\* not the first.
WorkerReturnKeepingLastError(w, r) ==
    /\ wres' = [wres EXCEPT ![w] = r]
    /\ wpc' = [wpc EXCEPT ![w] = "done"]
    /\ cur' = [cur EXCEPT ![w] = 0]
    /\ handled' = [handled EXCEPT ![w] = "none"]
    /\ groupErr' = IF IsError(r) THEN r ELSE groupErr
    /\ groupCanceled' = (groupCanceled \/ IsError(r))

(***************************************************************************)
(* runWorker.                                                              *)
(*                                                                         *)
(* WorkerReturn(w, r) is a return statement of runWorker inside            *)
(* goGroup.Go: the first non-nil error is recorded by the errgroup and     *)
(* cancels the group context.                                              *)
(***************************************************************************)
WorkerReturn(w, r) ==
    /\ wres' = [wres EXCEPT ![w] = r]
    /\ wpc' = [wpc EXCEPT ![w] = "done"]
    /\ cur' = [cur EXCEPT ![w] = 0]
    /\ handled' = [handled EXCEPT ![w] = "none"]
    /\ groupErr' = IF IsError(r) /\ groupErr = "none" THEN r ELSE groupErr
    /\ groupCanceled' = (groupCanceled \/ IsError(r))

\* Mutation of TaskFailed: the error is dropped whatever the state of the
\* worker context.
TaskFailedSwallowed(w, e) == WorkerReturn(w, "nil")

\* Mutation of TaskFailed: the error is returned without looking at the
\* worker context.
TaskFailedNotSwallowed(w, e) == WorkerReturn(w, e)

(***************************************************************************)
(* The error handling after verifyAndCloseResolvedIssues and after         *)
(* executeFuzzTarget: `if wg.ctx.Err() != nil { return nil }`, else the    *)
(* error is returned, wrapped as "failed to verify and close open issues"  *)
(* or as "fuzz target failed".  Of the causes inside executeFuzzTarget     *)
(* the model keeps one apart: the sandbox killed at its memory limit.      *)
(***************************************************************************)
TaskFailed(w, e) == WorkerReturn(w, IF workerCtxDone THEN "nil" ELSE e)

(***************************************************************************)
(* Container.Start and the deferred Container.Stop, as the number of       *)
(* sandboxes a worker has running.                                         *)
(***************************************************************************)
Started(n) == n + 1

\* Mutation of DeferredStop: the sandbox is left running.
WithoutDeferredStop(n) == n

DeferredStop(n) == n - 1

(***************************************************************************)
(* The issues listOpenIssues finds for a task, by failure site, and where  *)
(* the loop over them stands: with none left verifyAndCloseResolvedIssues  *)
(* returns nil and runWorker goes on to executeFuzzTarget.                 *)
(***************************************************************************)
OpenSites(t) == {s \in Sites : openIssues[t][s] > 0}

\* Mutation of AfterIssue: the fuzz run starts with issues left to verify.
AfterIssueSkipsRest(left) == "fuzz"

AfterIssue(left) == IF left = {} THEN "fuzz" ELSE "verify"

(***************************************************************************)
(* Top of the loop: Dequeue, NewGitHubRepo and the issue listing that      *)
(* opens verifyAndCloseResolvedIssues.  An empty queue ends the worker.    *)
(* NewGitHubRepo's error is returned whatever the context says.            *)
(***************************************************************************)
WorkerDequeue(w) ==
    /\ wpc[w] = "dequeue"
    /\ DequeueReturns(taskQueue)
    /\ taskQueue' = DequeueRest(taskQueue)
    /\ IF ~DequeueOk(taskQueue)
         THEN /\ WorkerReturn(w, "nil")
              /\ UNCHANGED <<vq, dequeues>>
         ELSE LET t == DequeueTask(taskQueue) IN
              /\ dequeues' = [dequeues EXCEPT ![t] = @ + 1]
              /\ \E step \in {"listed", "clientFailed", "listFailed"} :
                  /\ step = "listed" => ~workerCtxDone
                  /\ CASE step = "listed" ->
                            /\ wpc' = [wpc EXCEPT ![w] =
                                   AfterIssue(OpenSites(t))]
                            /\ cur' = [cur EXCEPT ![w] = t]
                            /\ vq' = [vq EXCEPT ![w] = OpenSites(t)]
                            /\ UNCHANGED <<wres, handled, groupErr,
                                           groupCanceled>>
                       [] step = "clientFailed" ->
                            /\ WorkerReturn(w, "github client failed")
                            /\ vq' = vq
                       [] step = "listFailed" ->
                            /\ TaskFailed(w, "verification failed")
                            /\ vq' = vq
    /\ UNCHANGED <<parentCanceled, cycleCanceled, ctrlVars, schedVars,
                   cfgVars, vcur, running, issueVars, targetDone,
                   failingInputs, harnessVars>>

(***************************************************************************)
(* The loop of verifyAndCloseResolvedIssues up to reproduceIssue's         *)
(* Container.Start: an issue is skipped (unparsable body, seed corpus      *)
(* crash), its sandbox is started, or a step on the way fails.  When no    *)
(* issue is left the worker goes on to executeFuzzTarget.                  *)
(***************************************************************************)
WorkerVerifyStart(w) ==
    /\ wpc[w] = "verify"
    /\ \E s \in vq[w], step \in {"skip", "start", "fail"} :
        /\ step = "start" => ~workerCtxDone
        /\ CASE step = "skip" ->
                  /\ vq' = [vq EXCEPT ![w] = @ \ {s}]
                  /\ wpc' = [wpc EXCEPT ![w] = AfterIssue(vq[w] \ {s})]
                  /\ UNCHANGED <<vcur, running, cur, handled, wres,
                                 groupErr, groupCanceled>>
             [] step = "start" ->
                  /\ vq' = [vq EXCEPT ![w] = @ \ {s}]
                  /\ vcur' = [vcur EXCEPT ![w] = s]
                  /\ running' = [running EXCEPT ![w] = Started(@)]
                  /\ wpc' = [wpc EXCEPT ![w] = "verifyWait"]
                  /\ UNCHANGED <<cur, handled, wres, groupErr,
                                 groupCanceled>>
             [] step = "fail" ->
                  /\ TaskFailed(w, "verification failed")
                  /\ vq' = [vq EXCEPT ![w] = {}]
                  /\ UNCHANGED <<vcur, running>>
    /\ UNCHANGED <<parentCanceled, cycleCanceled, ctrlVars, schedVars,
                   cfgVars, taskQueue, issueVars, histVars, harnessVars>>

\* Mutation of WaitReturnsNil: the exit status is not looked at.
WaitIgnoringStatus(wait) ==
    wait # "waitError" \/ workerCtxDone

(***************************************************************************)
(* Container.Wait: nil when the sandbox exits with status 0, and also      *)
(* when waiting fails under a canceled context.                            *)
(***************************************************************************)
WaitReturnsNil(wait) ==
    wait = "exit0" \/ (wait = "waitError" /\ workerCtxDone)

(***************************************************************************)
(* Where reproduceIssue stands once Wait has returned: on the way to       *)
(* closeIssue when Wait returned nil (the position keeps what the replay   *)
(* sandbox did), or keeping the issue open when Wait returned an error.    *)
(***************************************************************************)
ClosePositions ==
    {"closeAfterExit0", "closeAfterExitNonZero", "closeAfterWaitError"}

AfterWait(wait) ==
    IF ~WaitReturnsNil(wait) THEN "keepOpen"
    ELSE CASE wait = "exit0" -> "closeAfterExit0"
           [] wait = "exitNonZero" -> "closeAfterExitNonZero"
           [] wait = "waitError" -> "closeAfterWaitError"

(***************************************************************************)
(* reproduceIssue: Container.Wait on the replay sandbox.                   *)
(***************************************************************************)
WorkerVerifyWait(w) ==
    /\ wpc[w] = "verifyWait"
    /\ \E wait \in {"exit0", "exitNonZero", "waitError"} :
        wpc' = [wpc EXCEPT ![w] = AfterWait(wait)]
    /\ UNCHANGED <<ctxVars, ctrlVars, schedVars, cfgVars, taskQueue, cur,
                   vcur, vq, running, handled, wres, groupErr, issueVars,
                   histVars, harnessVars>>

(***************************************************************************)
(* A call of the issue tracker is handed the worker context.               *)
(***************************************************************************)
TrackerMaySucceed == ~workerCtxDone

\* Mutation of IssueClosed: the issue is edited to closed although posting
\* the comment failed.
IssueClosedWithoutComment(commentOk, editOk) == editOk

(***************************************************************************)
(* closeIssue: Issues.CreateComment first, returning its error, and only   *)
(* then Issues.Edit with the state "closed".                               *)
(***************************************************************************)
IssueClosed(commentOk, editOk) == commentOk /\ editOk

(***************************************************************************)
(* The rest of reproduceIssue and of the loop body: closeIssue when Wait   *)
(* returned nil, the deferred Stop, the removal of the input file.         *)
(***************************************************************************)
WorkerVerifyFinish(w) ==
    /\ wpc[w] \in ClosePositions \cup {"keepOpen"}
    /\ running' = [running EXCEPT ![w] = DeferredStop(@)]
    /\ vcur' = [vcur EXCEPT ![w] = "none"]
    /\ \E commentOk \in BOOLEAN, editOk \in BOOLEAN, fileOk \in BOOLEAN :
        /\ (commentOk \/ editOk) => TrackerMaySucceed
        /\ LET closing == wpc[w] \in ClosePositions IN
           /\ closeComment' =
                  IF closing /\ commentOk
                    THEN [closeComment EXCEPT ![cur[w]][vcur[w]] = 1]
                    ELSE closeComment
           /\ openIssues' =
                  IF closing /\ IssueClosed(commentOk, editOk)
                    THEN [openIssues EXCEPT ![cur[w]][vcur[w]] = @ - 1]
                    ELSE openIssues
           /\ IF (closing /\ ~(commentOk /\ editOk)) \/ ~fileOk
                THEN /\ TaskFailed(w, "verification failed")
                     /\ vq' = [vq EXCEPT ![w] = {}]
                ELSE /\ wpc' = [wpc EXCEPT ![w] = AfterIssue(vq[w])]
                     /\ UNCHANGED <<vq, cur, handled, wres, groupErr,
                                    groupCanceled>>
    /\ UNCHANGED <<parentCanceled, cycleCanceled, ctrlVars, schedVars,
                   cfgVars, taskQueue, created, histVars, harnessVars>>

(***************************************************************************)
(* executeFuzzTarget up to Container.Start.  When the start fails and the  *)
(* fuzz context is done (the worker context is canceled, or the timeout    *)
(* of the fuzz context has passed), executeFuzzTarget returns nil: the     *)
(* worker takes the target for completed and loops to the next Dequeue.    *)
(***************************************************************************)
WorkerFuzzStart(w) ==
    /\ wpc[w] = "fuzz"
    /\ \E step \in {"started", "dirFailed", "startFailed", "startTimedOut"} :
        /\ step \in {"started", "startFailed"} => ~workerCtxDone
        /\ CASE step = "started" ->
                  /\ running' = [running EXCEPT ![w] = Started(@)]
                  /\ wpc' = [wpc EXCEPT ![w] = "select"]
                  /\ UNCHANGED <<cur, handled, wres, groupErr, groupCanceled,
                                 targetDone>>
             [] step = "dirFailed" ->
                  /\ TaskFailed(w, "fuzz target failed")
                  /\ UNCHANGED <<running, targetDone>>
             [] step = "startFailed" ->
                  /\ TaskFailed(w, "fuzz target failed")
                  /\ UNCHANGED <<running, targetDone>>
             [] step = "startTimedOut" ->
                  /\ wpc' = [wpc EXCEPT ![w] = "dequeue"]
                  /\ cur' = [cur EXCEPT ![w] = 0]
                  /\ targetDone' = [targetDone EXCEPT ![cur[w]] = "notStarted"]
                  /\ UNCHANGED <<running, handled, wres, groupErr,
                                 groupCanceled>>
    /\ UNCHANGED <<parentCanceled, cycleCanceled, ctrlVars, schedVars,
                   cfgVars, taskQueue, vcur, vq, issueVars, dequeues,
                   failingInputs, harnessVars>>

(***************************************************************************)
(* issueExists searches the open issues for the title; handleCrash         *)
(* creates an issue when issueExists says false.                           *)
(***************************************************************************)
issueExists(t, s) == openIssues[t][s] > 0

\* Mutation of CreatesIssue: an issue is created without looking for an
\* open one.
CreatesIssueAlways(t, s) == TRUE

CreatesIssue(t, s) == ~issueExists(t, s)

(***************************************************************************)
(* What the sandbox of the fuzz run can do, as seen by the select of       *)
(* executeFuzzTarget:                                                      *)
(*   "done"      fuzzCtx is done (its timeout may pass at any time);       *)
(*   "exit0"     errorChan delivers nil (status 0, or a failed wait under  *)
(*               a done context);                                          *)
(*   "exitError" errorChan delivers a wait or log error, or a non-zero     *)
(*               status without a failure report in the output;            *)
(*   "oomKilled" the sandbox hit its memory limit and was killed: a        *)
(*               non-zero status without a failure report;                 *)
(*   "crash"     the output processor found a failure report.              *)
(***************************************************************************)
FuzzEvents == {"done", "exit0", "exitError", "oomKilled", "crash"}

\* Mutation of AfterSelect: after a crash was handled executeFuzzTarget
\* returns nil at once, without the coverage report.
AfterSelectCrashReturns(ev) == IF ev = "crash" THEN "dequeue" ELSE "report"

(***************************************************************************)
(* Where executeFuzzTarget goes on when a case of its select has ended     *)
(* without an error: to updateReport, whatever the case was.               *)
(***************************************************************************)
AfterSelect(ev) == "report"

(***************************************************************************)
(* The select of executeFuzzTarget with its three cases, handleCrash       *)
(* included.                                                               *)
(***************************************************************************)
(***************************************************************************)
(* The deadline of the fuzz context (taskTimeout + ContainerGracePeriod)   *)
(* passes while the worker waits in the select of executeFuzzTarget.       *)
(***************************************************************************)
WorkerFuzzDeadline(w) ==
    /\ wpc[w] = "select"
    /\ wpc' = [wpc EXCEPT ![w] = "selectExpired"]
    /\ UNCHANGED <<ctxVars, ctrlVars, schedVars, cfgVars, taskQueue, cur,
                   vcur, vq, running, handled, wres, groupErr, issueVars,
                   histVars, harnessVars>>

(***************************************************************************)
(* The cases of the select that can be taken.  The worker is parked in the *)
(* select, so the first case to become ready is the one taken: once the    *)
(* fuzz context is done that is `<-fuzzCtx.Done()`, and what                *)
(* WaitAndGetLogs sends afterwards stays unread in its buffered channel.   *)
(* A canceled worker context makes fuzzCtx.Done() ready as well.           *)
(***************************************************************************)
ReadyEvents(w) ==
    IF wpc[w] = "selectExpired"
      THEN {"done"}
      ELSE (FuzzEvents \ {"done"})
               \cup (IF workerCtxDone THEN {"done"} ELSE {})

\* Mutation of SelectError: the case of the done fuzz context returns the
\* error of the context.
SelectErrorOnDeadline(ev) == ev \in {"done", "exitError", "oomKilled"}

(***************************************************************************)
(* Whether the case taken by the select returns an error: only a non-nil   *)
(* error received from errorChan does; the body of the case                *)
(* `<-fuzzCtx.Done()` is empty.                                             *)
(***************************************************************************)
SelectError(ev) == ev \in {"exitError", "oomKilled"}

WorkerFuzzSettle(w) ==
    /\ wpc[w] \in {"select", "selectExpired"}
    /\ \E ev \in ReadyEvents(w), s \in Sites, rpcOk \in BOOLEAN :
        /\ rpcOk => ~workerCtxDone
        /\ CASE ~SelectError(ev) /\ ev # "crash" ->
                  /\ wpc' = [wpc EXCEPT ![w] = AfterSelect(ev)]
                  /\ UNCHANGED <<running, cur, handled, wres, groupErr,
                                 groupCanceled, issueVars>>
             [] SelectError(ev) /\ ev # "oomKilled" ->
                  /\ running' = [running EXCEPT ![w] = DeferredStop(@)]
                  /\ TaskFailed(w, "fuzz target failed")
                  /\ UNCHANGED issueVars
             [] SelectError(ev) /\ ev = "oomKilled" ->
                  /\ running' = [running EXCEPT ![w] = DeferredStop(@)]
                  /\ TaskFailed(w, "fuzz target failed: out of memory")
                  /\ UNCHANGED issueVars
             [] ~SelectError(ev) /\ ev = "crash" ->
                  IF ~rpcOk
                    THEN /\ running' = [running EXCEPT ![w] = DeferredStop(@)]
                         /\ TaskFailed(w, "fuzz target failed")
                         /\ UNCHANGED issueVars
                    ELSE /\ wpc' = [wpc EXCEPT ![w] = AfterSelect(ev)]
                         /\ handled' = [handled EXCEPT ![w] =
                                IF CreatesIssue(cur[w], s)
                                  THEN "created" ELSE "exists"]
                         /\ openIssues' =
                                IF CreatesIssue(cur[w], s)
                                  THEN [openIssues EXCEPT ![cur[w]][s] = @ + 1]
                                  ELSE openIssues
                         /\ created' =
                                IF CreatesIssue(cur[w], s)
                                  THEN [created EXCEPT ![cur[w]][s] = 1]
                                  ELSE created
                         /\ closeComment' =
                                IF CreatesIssue(cur[w], s)
                                  THEN [closeComment EXCEPT ![cur[w]][s] = 0]
                                  ELSE closeComment
                         /\ UNCHANGED <<running, cur, wres, groupErr,
                                        groupCanceled>>
        /\ failingInputs' = IF ev = "crash"
                              THEN [failingInputs EXCEPT ![cur[w]] = TRUE]
                              ELSE failingInputs
    /\ UNCHANGED <<parentCanceled, cycleCanceled, ctrlVars, schedVars,
                   cfgVars, taskQueue, vcur, vq, dequeues, targetDone,
                   harnessVars>>

(***************************************************************************)
(* The tail of executeFuzzTarget: updateReport (and MinimizeCorpus) under  *)
(* the worker context, then the deferred Stop; on success the worker       *)
(* loops to the next Dequeue.  In a cycle that minimizes the corpus,       *)
(* MinimizeCorpus begins by removing <pkg>/testdata/fuzz/<target> from the *)
(* project.                                                                *)
(***************************************************************************)
WorkerReport(w) ==
    /\ wpc[w] = "report"
    /\ running' = [running EXCEPT ![w] = DeferredStop(@)]
    /\ \E ok, shouldMinimizeCorpus \in BOOLEAN :
        /\ ok => ~workerCtxDone
        /\ shouldMinimizeCorpus => ~workerCtxDone
        /\ failingInputs' =
               [failingInputs EXCEPT ![cur[w]] = @ /\ ~shouldMinimizeCorpus]
        /\ IF ok
             THEN /\ wpc' = [wpc EXCEPT ![w] = "dequeue"]
                  /\ cur' = [cur EXCEPT ![w] = 0]
                  /\ handled' = [handled EXCEPT ![w] = "none"]
                  /\ targetDone' = [targetDone EXCEPT ![cur[w]] = "reported"]
                  /\ UNCHANGED <<wres, groupErr, groupCanceled>>
             ELSE /\ TaskFailed(w, "fuzz target failed")
                  /\ UNCHANGED targetDone
    /\ UNCHANGED <<parentCanceled, cycleCanceled, ctrlVars, schedVars,
                   cfgVars, taskQueue, vcur, vq, issueVars, dequeues,
                   harnessVars>>

(***************************************************************************)
(* The program: the configuration is fixed at start; SyncChoices holds a   *)
(* sync frequency too short for any target and one that is long enough    *)
(* for all and has a fifth of more than an hour.                           *)
(***************************************************************************)
SyncChoices == {0, 6 * OneHour}

Init ==
    /\ InitProgram
    /\ NoCorpus
    /\ NoFuzzOutput
    /\ syncFrequency \in SyncChoices
    /\ numWorkers \in 1..NumWorkers
    /\ iterations = 0
    /\ totalTargets = 0

Next ==
    \/ CtrlPrepare
    \/ CtrlLaunch
    \/ CtrlDeadline
    \/ CtrlDrain
    \/ CtrlShutdown
    \/ CtrlShutdownReturn
    \/ CtrlResult
    \/ CtrlUploadCorpus
    \/ CtrlUploadReports
    \/ ParentCancel
    \/ SchedDiscover
    \/ SchedSetup
    \/ SchedWait
    \/ \E w \in Workers :
        \/ WorkerDequeue(w)
        \/ WorkerVerifyStart(w)
        \/ WorkerVerifyWait(w)
        \/ WorkerVerifyFinish(w)
        \/ WorkerFuzzStart(w)
        \/ WorkerFuzzDeadline(w)
        \/ WorkerFuzzSettle(w)
        \/ WorkerReport(w)

Spec == Init /\ [][Next]_vars

(***************************************************************************)
(* The program started with an iteration cap: fuzz.iterations is any       *)
(* value the configuration check accepts (0, the default, means no cap),   *)
(* with a sync frequency long enough for every target.                     *)
(***************************************************************************)
IterationChoices == 0..(MaxCycles - 1)

InitIterations ==
    /\ InitProgram
    /\ NoCorpus
    /\ NoFuzzOutput
    /\ syncFrequency = MaxTargets
    /\ numWorkers = NumWorkers
    /\ iterations \in IterationChoices
    /\ totalTargets = 0

SpecIterations == InitIterations /\ [][Next]_vars

(***************************************************************************)
(* The start of a cycle under any short sync frequency and any number of   *)
(* workers: the controller launches the scheduler, which discovers the     *)
(* targets, computes the budget and sets the workers up.                   *)
(***************************************************************************)
InitShortSync ==
    /\ InitProgram
    /\ NoCorpus
    /\ NoFuzzOutput
    /\ syncFrequency \in 0..MaxSync
    /\ numWorkers \in 1..NumWorkers
    /\ iterations = 0
    /\ totalTargets = 0

NextShortSync == CtrlPrepare \/ CtrlLaunch \/ SchedDiscover \/ SchedSetup

SpecShortSync == InitShortSync /\ [][NextShortSync]_vars

(***************************************************************************)
(* Properties.                                                             *)
(***************************************************************************)
OutOfMemory == "fuzz target failed: out of memory"

InCycle == {"select", "drain", "shutdown", "persist", "persistReports"}

WorkersDrained == \A w \in Workers : wpc[w] \in {"idle", "done"}

\* C1: an object is put in the store only in a step taken when the
\* scheduler of the cycle has reported nil and the application context is
\* not canceled; a cycle whose scheduler reported an error, or that was
\* interrupted, uploads neither the corpus nor the reports.
C1_UploadOnlyAfterCleanCycle ==
    [][uploaded' \ uploaded # {} =>
           /\ schedResult = "nil"
           /\ ~parentCanceled
           /\ ctrl \in {"persist", "persistReports"}]_vars

C1_Witness ==
    /\ uploaded = {"corpus", "reports"}
    /\ schedResult = "nil"
    /\ \A t \in Tasks : dequeues[t] = 1

\* C2: within a cycle Dequeue returns each enqueued task at most once, and
\* no two workers hold the same task, whatever the interleaving of the
\* workers.
C2_TaskDequeuedOnce ==
    /\ \A t \in Tasks : dequeues[t] <= 1
    /\ \A w1, w2 \in Workers :
           w1 # w2 /\ cur[w1] # 0 => cur[w1] # cur[w2]

C2_Witness ==
    /\ \A w \in Workers : cur[w] # 0
    /\ \A t \in Tasks : dequeues[t] = 1
    /\ taskQueue = <<>>

\* C3 as stated: over all cycles at most one issue is ever created for a
\* target and failure site, so an issue is created only for a title that
\* never had one.
C3_OneIssueInTotal ==
    [][\A t \in Tasks, s \in Sites :
           openIssues'[t][s] > openIssues[t][s] => created[t][s] = 0]_vars

\* C3 amended: handling a crash creates no issue while an issue with the
\* same title is open, so at most one issue per target and failure site is
\* open at any time (an issue that was closed does not count).
C3_OneOpenIssue ==
    \A t \in Tasks, s \in Sites : openIssues[t][s] <= 1

C3_Witness ==
    \E w \in Workers, s \in Sites :
        /\ wpc[w] = "report"
        /\ handled[w] = "exists"
        /\ openIssues[cur[w]][s] = 1
        /\ created[cur[w]][s] = 1

\* C4 as stated: the out-of-memory failure of a sandbox is never an error:
\* no worker returns it, the errgroup never records it (so the peers are
\* not canceled), and the scheduler never reports it.
C4_OutOfMemoryIsNoError ==
    /\ \A w \in Workers : wres[w] # OutOfMemory
    /\ groupErr # OutOfMemory
    /\ schedResult # OutOfMemory

\* C5: a worker that has returned has stopped every sandbox it started,
\* for fuzzing or for verification, so no sandbox is running once the
\* scheduler of the cycle has returned.
C5_SandboxesStopped ==
    /\ \A w \in Workers : wpc[w] \in {"idle", "done"} => running[w] = 0
    /\ sched = "done" => \A w \in Workers : running[w] = 0

C5_Witness ==
    /\ sched = "done"
    /\ cycleCanceled
    /\ \E w \in Workers : wres[w] = OutOfMemory
    /\ \A t \in Tasks : dequeues[t] = 1
    /\ \A w \in Workers : running[w] = 0

\* C6: once the application context is canceled while a cycle is running,
\* the controller never goes back to preparing or launching a cycle, and
\* it returns only when the cycle is canceled, the scheduler of the cycle
\* has sent its result and every worker has returned.
C6_ParentCancelEndsProgram ==
    [][parentCanceled /\ ctrl \in InCycle =>
           /\ ctrl' \in InCycle \cup {"done"}
           /\ cycle' = cycle
           /\ ctrl' = "done" =>
                  /\ cycleCanceled'
                  /\ sched = "done"
                  /\ WorkersDrained]_vars

C6_Witness ==
    /\ ctrl = "done"
    /\ parentCanceled
    /\ ret = "nil"
    /\ cycleCanceled
    /\ sched = "done"
    /\ \E t \in Tasks : dequeues[t] = 1

\* C7: when the scheduler has reported an error, the controller does not
\* upload anything and does not go on to another cycle; when it has
\* returned, the cycle is canceled, the error is what it returned and the
\* exit code is 1.
C7_SchedulerErrorIsTerminal ==
    IsError(schedResult) =>
        /\ uploaded = {}
        /\ ctrl \in {"select", "drain", "shutdown", "done"}
        /\ ctrl = "done" =>
               /\ cycleCanceled
               /\ ret = schedResult
               /\ ExitCode(ret) = 1

C7_Witness ==
    /\ ctrl = "done"
    /\ ~parentCanceled
    /\ IsError(groupErr)
    /\ schedResult = groupErr
    /\ ret = schedResult
    /\ ExitCode(ret) = 1

\* C8 as stated: a return of the controller from the shutdown branch
\* (the application context was canceled while the cycle was running)
\* gives exit code 0, with nothing uploaded.
C8_ShutdownExitsZero ==
    [][ctrl = "shutdown" /\ ctrl' = "done" =>
           ExitCode(ret') = 0 /\ uploaded' = {}]_vars

\* C9: the per-target timeout is floor(S / ceil(T / W)): with n the number
\* such that (n - 1) * W < T <= n * W, it is the number q such that
\* q * n <= S < (q + 1) * n; 3h37m53s with 7 workers and 43 targets gives
\* 31m7s, and 3m with 3 workers and 5 targets gives 1m30s.
C9_PerTargetBudget ==
    perTargetTimeout # -1 =>
        /\ \E n \in 1..totalTargets :
            /\ (n - 1) * numWorkers < totalTargets
            /\ totalTargets <= n * numWorkers
            /\ perTargetTimeout * n <= syncFrequency
            /\ syncFrequency < (perTargetTimeout + 1) * n
        /\ <<syncFrequency, numWorkers, totalTargets>> = <<13073, 7, 43>>
               => perTargetTimeout = 1867
        /\ <<syncFrequency, numWorkers, totalTargets>> = <<180, 3, 5>>
               => perTargetTimeout = 90

C9_Witness ==
    /\ <<syncFrequency, numWorkers, totalTargets>> = <<13073, 7, 43>>
    /\ perTargetTimeout = 1867

\* C10: the tasks dequeued so far followed by the tasks in the queue are
\* the tasks enqueued, in the order they were enqueued, and the length of
\* the queue is the number of tasks enqueued minus the number dequeued.
C10_QueueFIFO ==
    LET got == SelectSeq(dequeued, LAMBDA x : x # 0)
    IN  /\ got \o taskQueue = enqueued
        /\ Length(taskQueue) = Len(enqueued) - Len(got)

C10_Witness ==
    /\ enqueued = <<1, 2, 1>>
    /\ dequeued = <<1, 2, 1>>
    /\ taskQueue = <<>>


\* C11: with fuzz.iterations = n > 0 the controller launches at most n
\* cycles.
C11_IterationCap ==
    iterations > 0 => cycle <= iterations


\* C12: the scheduler goes on to the set-up and starts workers only with
\* at least one discovered target; when it reports `no fuzz targets` the
\* queue is empty, no worker was started, nothing is uploaded and the
\* error is what the controller returns.
C12_NoTargetsIsCycleError ==
    /\ sched \in {"setup", "wait"} => totalTargets >= 1
    /\ (\E w \in Workers : wpc[w] # "idle") => totalTargets >= 1
    /\ schedResult = "no fuzz targets" =>
           /\ taskQueue = <<>>
           /\ \A w \in Workers : wpc[w] = "idle" /\ running[w] = 0
           /\ \A t \in Tasks : dequeues[t] = 0
           /\ uploaded = {}
           /\ ctrl = "done" => ret = "no fuzz targets" /\ ExitCode(ret) = 1

C12_Witness ==
    /\ ctrl = "done"
    /\ ~parentCanceled
    /\ schedResult = "no fuzz targets"
    /\ ret = "no fuzz targets"


\* C13: verification closes an issue only in a step of the worker that
\* replayed it and whose replay sandbox exited with status 0; after a
\* replay that failed again, or whose wait failed, the issue stays open.
C13_ClosedOnlyAfterCleanReplay ==
    [][\A t \in Tasks, s \in Sites :
           openIssues'[t][s] < openIssues[t][s] =>
               \E w \in Workers :
                   /\ cur[w] = t
                   /\ vcur[w] = s
                   /\ wpc[w] = "closeAfterExit0"]_vars

C13_Witness ==
    \E w \in Workers, s \in Sites :
        /\ wpc[w] = "fuzz"
        /\ created[cur[w]][s] = 1
        /\ openIssues[cur[w]][s] = 0

\* C14 (as stated): in a cycle that the controller takes for successful,
\* going on to persist its artifacts, the coverage report was updated for
\* every discovered fuzz target.  The cycle deadline refutes it: the workers
\* drop their targets under the canceled context, the scheduler reports nil
\* and the controller persists.
C14_EveryTargetReported ==
    ctrl \in {"persist", "persistReports"} =>
        \A t \in 1..totalTargets : targetDone[t] = "reported"

\* C14 (amended): when the scheduler reports ok while the cycle context is
\* still live, every discovered fuzz target whose sandbox could be started,
\* crashed or clean, had its coverage report updated before its worker took
\* it for completed; the only other targets are those whose sandbox did not
\* start before the fuzz context was done.
C14_StartedTargetsReported ==
    (sched = "done" /\ schedResult = "nil" /\ ~schedulerCtxDone) =>
        \A t \in 1..totalTargets : targetDone[t] \in {"reported", "notStarted"}

C14_Witness ==
    /\ sched = "done"
    /\ schedResult = "nil"
    /\ ~schedulerCtxDone
    /\ totalTargets = MaxTargets
    /\ \A t \in Tasks : targetDone[t] = "reported"
    /\ \E t \in Tasks : \E s \in Sites : created[t][s] > 0

C16_SortedNoDuplicates ==
    \A i \in 1..(Len(masterState) - 1) :
        StateLess(masterState[i], masterState[i + 1])

\* C17: the fingerprint in the title of the issue is the first 16 hex
\* digits of the SHA-256 of the failure site followed by a newline, so a
\* crash whose first failure site is stringutils_test.go:17 has
\* cfec419a119b189c in its title.
C17_FingerprintOfSiteLine ==
    (issueTitle # <<>> /\ crash.failureFileAndLine # <<>>) =>
        /\ issueTitle[2] = ComputeSHA256Short(crash.failureFileAndLine \o <<NL>>)
        /\ crash.failureFileAndLine = <<"stringutils_test.go", ":", "17">>
               => issueTitle[2] = "cfec419a119b189c"

\* C18: parsing the body that the crash-report formatter produced gives
\* back exactly the failing input of the crash, and the seed-corpus
\* sentinel when the crash had no failing input.
C18_BodyRoundTrip ==
    parsed # NotParsed =>
        /\ parsed.err = "nil"
        /\ parsed.failingInput = IF crash.failingInput = <<>>
                                   THEN <<seedCorpusErrMsg>>
                                   ELSE crash.failingInput

\* C19: the scheduler starts exactly numWorkers workers; the first error a
\* worker returns cancels the group context and stays the error of the
\* group, whatever later workers return; the scheduler reports only after
\* every worker has returned, and it reports that first error, or ok when
\* no worker returned an error.
C19_ErrgroupFirstError ==
    [][/\ (sched = "setup" /\ sched' = "wait") =>
              Cardinality({w \in Workers : wpc'[w] # "idle"}) = numWorkers
       /\ \A w \in Workers :
              (wres[w] = "none" /\ IsError(wres'[w])) =>
                  /\ groupCanceled'
                  /\ groupErr' = IF groupErr = "none" THEN wres'[w]
                                                      ELSE groupErr
       /\ (sched = "wait" /\ IsError(groupErr)) => groupErr' = groupErr
       /\ (sched = "wait" /\ sched' = "done") =>
              /\ Cardinality({w \in Workers : wres[w] # "none"}) = numWorkers
              /\ schedResult' = IF \E w \in Workers : IsError(wres[w])
                                  THEN groupErr ELSE "nil"
              /\ IsError(schedResult') => \E w \in Workers :
                                              wres[w] = schedResult']_vars

C19_Witness ==
    /\ sched = "done"
    /\ numWorkers = NumWorkers
    /\ wres[1] = "github client failed"
    /\ wres[2] = "fuzz target failed"
    /\ groupErr = "fuzz target failed"
    /\ schedResult = groupErr

\* C20: the timer of a cycle is set to sync_frequency plus the smaller of a
\* fifth of sync_frequency and one hour; when it fires, the controller
\* cancels the cycle and then does nothing but wait for the scheduler's
\* report; on an error it returns that error, on ok it goes on to persist
\* the artifacts, and from there to the next cycle once both are stored.
C20_DeadlineDrains ==
    [][/\ (ctrl = "select" /\ ctrl' = "drain") =>
              /\ cycleCanceled'
              /\ cycleTimer = 1000 * syncFrequency
                                + (IF 200 * syncFrequency < 3600000
                                     THEN 200 * syncFrequency ELSE 3600000)
       /\ (ctrl = "drain" /\ ctrl' # "drain") =>
              /\ sched = "done"
              /\ errChan = <<schedResult>>
              /\ IF IsError(schedResult)
                   THEN ctrl' = "done" /\ ret' = schedResult
                   ELSE ctrl' = "persist" /\ ret' = ret /\ cycle' = cycle
       /\ (ctrl \in {"persist", "persistReports"} /\ ctrl' = "prepare") =>
              uploaded' = {"corpus", "reports"}
       /\ (ctrl = "persistReports" /\ uploaded' = {"corpus", "reports"}) =>
              ctrl' = "prepare"]_vars

C20_Witness ==
    /\ ctrl = "persistReports"
    /\ uploaded = {"corpus"}
    /\ cycleCanceled
    /\ ~parentCanceled
    /\ schedResult = "nil"
    /\ cycleTimer = 25200000
    /\ Length(taskQueue) > 0

(***************************************************************************)
(* The positions of runWorker in which the worker holds a task: it is      *)
(* verifying the open issues of the target or has its fuzz run in flight.  *)
(***************************************************************************)
InTask ==
    {"verify", "verifyWait", "keepOpen", "fuzz", "select", "selectExpired",
     "report"}
        \cup ClosePositions

(***************************************************************************)
(* C21: when the cycle context is canceled while a worker is verifying     *)
(* issues or has a fuzz run in flight, whatever the worker does next       *)
(* yields no worker error and leaves the error of the group as it was,     *)
(* and when the worker leaves the task no sandbox of it is still running.  *)
(***************************************************************************)
C21_CanceledFailuresSwallowed ==
    [][\A w \in Workers :
          (schedulerCtxDone /\ wpc[w] \in InTask /\ wpc'[w] # wpc[w]) =>
              /\ ~IsError(wres'[w])
              /\ groupErr' = groupErr
              /\ (wpc'[w] \in {"done", "dequeue"} => running'[w] = 0)]_vars

\* A worker gave its task up under the canceled cycle context: the task
\* was taken from the queue and never reported, every worker returned nil
\* with no sandbox left, and the scheduler reported no error.
C21_Witness ==
    /\ cycleCanceled /\ ~parentCanceled
    /\ schedResult = "nil"
    /\ groupErr = "none"
    /\ \A w \in 1..numWorkers : wres[w] = "nil" /\ running[w] = 0
    /\ \E t \in Tasks : dequeues[t] = 1 /\ targetDone[t] = "none"

(***************************************************************************)
(* C22: when the deadline of a fuzz run has passed while the cycle goes    *)
(* on, the select of the worker ends without a worker error and without    *)
(* an error of the group, the worker moves on to the coverage report of    *)
(* the target, and once that report is written it takes its next task.     *)
(***************************************************************************)
C22_FuzzDeadlineIsNormal ==
    [][\A w \in Workers :
          /\ (wpc[w] = "selectExpired" /\ wpc'[w] # wpc[w]) =>
                 /\ wpc'[w] = "report"
                 /\ wres'[w] = wres[w]
                 /\ groupErr' = groupErr
                 /\ groupCanceled' = groupCanceled
          /\ (wpc[w] = "select" /\ wpc'[w] = "selectExpired") =>
                 /\ wres'[w] = wres[w]
                 /\ groupErr' = groupErr]_vars

\* The deadline of a fuzz run has passed in a live cycle while the only
\* worker waits in the select, after an earlier target was reported.
C22_Witness ==
    /\ ~workerCtxDone
    /\ \E w \in Workers, t \in Tasks :
        /\ wpc[w] = "selectExpired"
        /\ cur[w] # t
        /\ targetDone[t] = "reported"
        /\ numWorkers = 1

(***************************************************************************)
(* A worker leaves the task it holds without the coverage report of the    *)
(* target: verifyAndCloseResolvedIssues or executeFuzzTarget met a         *)
(* failure.                                                                *)
(***************************************************************************)
TaskGivenUp(w) ==
    /\ wpc[w] \in InTask
    /\ wpc'[w] \in {"done", "dequeue"}
    /\ targetDone'[cur[w]] # "reported"

InVerification == {"verify", "verifyWait", "keepOpen"} \cup ClosePositions

(***************************************************************************)
(* C24: a worker enters the fuzz run of its task only when the             *)
(* verification of the task has finished (no open issue of the target is   *)
(* left to verify and no replay sandbox is running), the fuzz sandbox is   *)
(* started only from there, and a worker that leaves the verification      *)
(* in any other way has returned and left the task.                        *)
(***************************************************************************)
C24_VerifyBeforeFuzz ==
    [][\A w \in Workers :
          /\ (wpc'[w] = "fuzz" /\ wpc[w] # "fuzz") =>
                 /\ wpc[w] \in InVerification \cup {"dequeue"}
                 /\ vq'[w] = {} /\ vcur'[w] = "none"
                 /\ running'[w] = 0
                 /\ cur'[w] # 0
          /\ (wpc'[w] = "select" /\ wpc[w] # "select") =>
                 /\ wpc[w] = "fuzz"
                 /\ cur'[w] = cur[w]
          /\ (wpc[w] \in InVerification
                  /\ wpc'[w] \notin InVerification \cup {"fuzz"}) =>
                 /\ wpc'[w] = "done"
                 /\ cur'[w] = 0
                 /\ running'[w] = 0]_vars

\* The fuzz sandbox of a target runs after the verification closed the
\* issue of the target that an earlier crash had opened.
C24_Witness ==
    \E w \in Workers, s \in Sites :
        /\ wpc[w] = "select"
        /\ running[w] = 1
        /\ created[cur[w]][s] = 1
        /\ openIssues[cur[w]][s] = 0

(***************************************************************************)
(* C25: an issue is closed only in a step that has posted the close        *)
(* comment on it, and a closing step that did not post the comment         *)
(* leaves the issue open; so every issue the system closed carries the     *)
(* comment.                                                                *)
(***************************************************************************)
C25_CommentBeforeClose ==
    [][\A t \in Tasks, s \in Sites :
          /\ openIssues'[t][s] < openIssues[t][s] =>
                 closeComment'[t][s] = 1
          /\ (\E w \in Workers :
                  /\ wpc[w] \in ClosePositions /\ wpc'[w] # wpc[w]
                  /\ cur[w] = t /\ vcur[w] = s
                  /\ closeComment'[t][s] = 0) =>
                 openIssues'[t][s] = openIssues[t][s]]_vars

\* The comment was posted on an issue and the edit that closes it failed:
\* the issue is open with the comment, and the worker returned the error.
C25_Witness ==
    \E t \in Tasks, s \in Sites :
        /\ closeComment[t][s] = 1
        /\ openIssues[t][s] = 1
        /\ groupErr = "verification failed"

(***************************************************************************)
(* C26: a worker at the top of its loop can always take its Dequeue step,  *)
(* whatever the queue holds, and on an empty queue that step leaves the    *)
(* queue empty and ends the worker with a nil result and no error of the   *)
(* group: the worker does not wait for further tasks.                      *)
(***************************************************************************)
C26_DequeueNeverBlocks ==
    /\ [](\A w \in Workers : wpc[w] = "dequeue" => ENABLED WorkerDequeue(w))
    /\ [][\A w \in Workers :
             (wpc[w] = "dequeue" /\ taskQueue = <<>> /\ wpc'[w] # wpc[w]) =>
                 /\ wpc'[w] = "done"
                 /\ wres'[w] = "nil"
                 /\ taskQueue' = <<>>
                 /\ groupErr' = groupErr]_vars

\* Every target of a live cycle was reported, the queue is empty and the
\* workers have all returned nil, with the scheduler still to report.
C26_Witness ==
    /\ ~workerCtxDone
    /\ taskQueue = <<>>
    /\ totalTargets = MaxTargets
    /\ \A t \in Tasks : targetDone[t] = "reported"
    /\ \A w \in Workers : wpc[w] = "done" /\ wres[w] = "nil"
    /\ schedResult = "none"

(***************************************************************************)
(* C27: once the scheduler has found targets, the budget of a target is    *)
(* zero exactly when the sync frequency in seconds is below the targets    *)
(* per worker, rounded up; and with a zero budget the scheduler has        *)
(* reported `invalid duration` and no worker has been started.             *)
(***************************************************************************)
C27_ZeroBudgetAborts ==
    (sched # "discover" /\ totalTargets > 0) =>
        /\ perTargetTimeout = 0 <=>
               \E k \in 1..MaxTargets :
                   /\ k * numWorkers >= totalTargets
                   /\ (k - 1) * numWorkers < totalTargets
                   /\ syncFrequency < k
        /\ perTargetTimeout = 0 =>
               /\ schedResult = "invalid duration"
               /\ errChan = <<"invalid duration">>
               /\ \A w \in Workers : wpc[w] = "idle" /\ running[w] = 0

\* One second of sync frequency for two targets on one worker: the budget
\* is zero and the scheduler has reported the error.
C27_Witness ==
    /\ syncFrequency = 1
    /\ numWorkers = 1
    /\ totalTargets = 2
    /\ perTargetTimeout = 0
    /\ schedResult = "invalid duration"

(***************************************************************************)
(* The stream of a fuzz run as the claims on the stream processor see it:  *)
(* the lines that hold the marker, the lines after the first of them, and  *)
(* among these the first that names a failure site and the first that      *)
(* names a failing input.                                                  *)
(***************************************************************************)
FailLines == {i \in 1..Len(fuzzOutput) : ContainsFail(fuzzOutput[i])}

FirstOf(S) == CHOOSE i \in S : \A j \in S : i <= j

LinesAfterMarker ==
    IF FailLines = {} THEN <<>>
    ELSE [i \in 1..(Len(fuzzOutput) - FirstOf(FailLines)) |->
              fuzzOutput[FirstOf(FailLines) + i]]

SiteLines ==
    {i \in 1..Len(LinesAfterMarker) :
        parseFileAndLine(LinesAfterMarker[i]) # <<>>}

InputLines ==
    {i \in 1..Len(LinesAfterMarker) : parseFailureLine(LinesAfterMarker[i])}

FirstInputMissing ==
    /\ InputLines # {}
    /\ parseFailureId(LinesAfterMarker[FirstOf(InputLines)])
           \notin DOMAIN corpusFile

\* processFuzzStream returned a crash: the worker went on to handle it.
CrashEmitted ==
    crashPc \in {"handle", "verify"} \/ (crashPc = "done" /\ issueBody # <<>>)

\* The place of line i in the text of the lines, each ended by a newline.
RECURSIVE OffsetOf(_)
OffsetOf(i) ==
    IF i = 1 THEN 0
    ELSE OffsetOf(i - 1) + Len(LinesAfterMarker[i - 1]) + 1

(***************************************************************************)
(* C28: once the stream has been processed, a crash has been emitted if    *)
(* and only if some line of the stream holds `--- FAIL:`, and the lines    *)
(* up to the marker are not part of the crash: its log starts with the     *)
(* first line after the marker.                                            *)
(***************************************************************************)
C28_CrashIffFailLine ==
    crashPc # "scan" =>
        /\ CrashEmitted <=> FailLines # {}
        /\ (CrashEmitted /\ LinesAfterMarker # <<>>) =>
               SubSeq(crash.errorLogs, 1, Len(LinesAfterMarker[1]))
                   = LinesAfterMarker[1]
        /\ (CrashEmitted /\ LinesAfterMarker = <<>>) =>
               crash.errorLogs = <<>>

(***************************************************************************)
(* C29: when the first line after the marker that names a failing input    *)
(* names a file that is not there, processing the stream is no error: a    *)
(* crash is emitted with no failing input, and the body of its issue has   *)
(* the seed-corpus sentinel as its failing testcase.                       *)
(***************************************************************************)
C29_MissingInputIsAbsent ==
    (crashPc # "scan" /\ FirstInputMissing) =>
        /\ crashPc # "failed"
        /\ CrashEmitted
        /\ crash.failingInput = <<>>
        /\ issueBody # <<>> =>
               issueBody = formatCrashReport(crash.errorLogs, <<>>)

(***************************************************************************)
(* C30: in an emitted crash the failure site is that of the first line     *)
(* after the marker that names one, the failing input is the file of the   *)
(* first line that names one, whatever later lines name, and the log is    *)
(* the text of all the lines after the marker, each with its newline.      *)
(***************************************************************************)
C30_FirstMatchesKept ==
    CrashEmitted =>
        /\ crash.failureFileAndLine =
               IF SiteLines = {} THEN <<>>
               ELSE parseFileAndLine(LinesAfterMarker[FirstOf(SiteLines)])
        /\ crash.failingInput =
               IF InputLines = {} THEN <<>>
               ELSE FileContent(parseFailureId(
                        LinesAfterMarker[FirstOf(InputLines)]))
        /\ Len(crash.errorLogs) = OffsetOf(Len(LinesAfterMarker) + 1)
        /\ \A i \in 1..Len(LinesAfterMarker) :
               /\ SubSeq(crash.errorLogs, OffsetOf(i) + 1,
                         OffsetOf(i) + Len(LinesAfterMarker[i]))
                      = LinesAfterMarker[i]
               /\ crash.errorLogs[OffsetOf(i + 1)] = NL

\* A crash was emitted for a stream with a line before the marker and two
\* lines after it that name different failure sites.
C30_Witness ==
    /\ CrashEmitted
    /\ FailLines # {} /\ FirstOf(FailLines) > 1
    /\ \E i, j \in SiteLines :
           /\ i < j
           /\ parseFileAndLine(LinesAfterMarker[i])
                  # parseFileAndLine(LinesAfterMarker[j])

(***************************************************************************)
(* MinimizeCorpus on the corpus of one target.  A corpus file is a name    *)
(* and a size; the names are numbers, in the order of the file names.      *)
(* What MeasureCoverage returns is chosen by the environment at every      *)
(* call: the Go fuzzing engine prints it, and a nondeterministic target    *)
(* gives different values for the same inputs.                             *)
(***************************************************************************)
MaxFiles == 3
MaxSize == 2
MaxCoverage == 2

FileNames == 1..MaxFiles
Sizes == 1..MaxSize
CoverageBits == 0..MaxCoverage

\* Every directory <corpusDir>/<target> there can be: some files, each of
\* some size.
CorpusDirs == UNION {[present -> Sizes] : present \in SUBSET FileNames}

\* os.ReadDir: the entries of the directory, sorted by file name.
RECURSIVE ReadDir(_)
ReadDir(names) ==
    IF names = {} THEN <<>>
    ELSE LET last == CHOOSE n \in names : \A m \in names : m <= n
         IN Append(ReadDir(names \ {last}), last)

\* The arrangements of a set of files in a slice.
Slices(names) ==
    {s \in [1..Cardinality(names) -> names] :
        \A i, j \in 1..Cardinality(names) : i # j => s[i] # s[j]}

\* Mutation of SortSlice: the slice stays as os.ReadDir returned it.
SortSliceNot(dir) == {ReadDir(DOMAIN dir)}

\* sort.Slice(files, less) with less = files[i].Size < files[j].Size.  The
\* sort is not stable: elements that less does not tell apart end up in an
\* order the sort chooses.
SortSlice(dir) ==
    {s \in Slices(DOMAIN dir) :
        \A i, j \in 1..Len(s) : i < j => ~(dir[s[j]] < dir[s[i]])}

\* Mutation of Improves: a file that leaves the coverage as it is is kept.
ImprovesOrEqual(new, best) == new >= best

\* Mutation of Improves: a file that changes the coverage is kept.
Changes(new, best) == new # best

\* newCoverage > bestCoverage
Improves(new, best) == new > best

InitMinimize ==
    /\ InitProgram
    /\ NoFuzzOutput
    /\ syncFrequency = 0
    /\ numWorkers = NumWorkers
    /\ iterations = 0
    /\ totalTargets = 0
    /\ minPc = "list"
    /\ corpusTargetDir \in CorpusDirs

minFrame == <<ctxVars, ctrlVars, schedVars, cfgVars, taskQueue, workerVars,
              issueVars, histVars, enqueued, dequeued, reportVars,
              masterVars, crashVars, timeVars,
                   storeVars>>

\* The start of MinimizeCorpus up to the loop: the cache directory is made,
\* the corpus directory is read and sorted, the f.Add inputs are counted.
MinimizeList ==
    /\ minPc = "list"
    /\ \E ok \in BOOLEAN, sorted \in SortSlice(corpusTargetDir) :
         IF ok THEN /\ fileInfos' = sorted
                    /\ minPc' = "loop"
               ELSE /\ fileInfos' = fileInfos
                    /\ minPc' = "failed"
    /\ UNCHANGED <<minFrame, corpusTargetDir, cacheCorpusDir, fileIdx,
                   bestCoverage, newCoverage, removedCount, warned, observed,
                   keptOn>>

\* A return with an error from inside the loop; the deferred
\* os.RemoveAll(cacheDir) empties the cache.
MinimizeFail(dir) ==
    /\ minPc' = "failed"
    /\ corpusTargetDir' = dir
    /\ cacheCorpusDir' = {}
    /\ UNCHANGED <<fileIdx, bestCoverage, removedCount, keptOn>>

Without(dir, file) == [n \in DOMAIN dir \ {file} |-> dir[n]]

\* One pass of the loop over files.
MinimizeStep ==
    /\ minPc = "loop"
    /\ fileIdx < Len(fileInfos)
    /\ LET file == fileInfos[fileIdx + 1]
           cache == cacheCorpusDir \cup {file}
       IN \E copyOk, measureOk, srcOk, dstOk \in BOOLEAN, new \in CoverageBits :
            IF ~copyOk \/ ~measureOk
              THEN /\ MinimizeFail(corpusTargetDir)
                   /\ UNCHANGED <<newCoverage, warned, observed>>
              ELSE /\ newCoverage' = new
                   /\ observed' = observed \cup {new}
                   /\ IF Improves(new, bestCoverage)
                        THEN /\ bestCoverage' = new
                             /\ cacheCorpusDir' = cache
                             /\ keptOn' = [cache |-> cache, coverage |-> new]
                             /\ fileIdx' = fileIdx + 1
                             /\ UNCHANGED <<minPc, corpusTargetDir,
                                            removedCount, warned>>
                        ELSE /\ warned' = IF new < bestCoverage
                                            THEN warned + 1 ELSE warned
                             /\ IF ~srcOk
                                  THEN MinimizeFail(corpusTargetDir)
                                  ELSE IF ~dstOk
                                    THEN MinimizeFail(
                                           Without(corpusTargetDir, file))
                                    ELSE /\ corpusTargetDir' =
                                              Without(corpusTargetDir, file)
                                         /\ cacheCorpusDir' = cache \ {file}
                                         /\ removedCount' = removedCount + 1
                                         /\ fileIdx' = fileIdx + 1
                                         /\ UNCHANGED <<minPc, bestCoverage,
                                                        keptOn>>
    /\ UNCHANGED <<minFrame, fileInfos>>

\* The end of the loop: the counts are logged, nil is returned, and the
\* deferred os.RemoveAll(cacheDir) empties the cache.
MinimizeReturn ==
    /\ minPc = "loop"
    /\ fileIdx = Len(fileInfos)
    /\ minPc' = "done"
    /\ cacheCorpusDir' = {}
    /\ UNCHANGED <<minFrame, corpusTargetDir, fileInfos, fileIdx,
                   bestCoverage, newCoverage, removedCount, warned, observed,
                   keptOn>>

NextMinimize == MinimizeList \/ MinimizeStep \/ MinimizeReturn

SpecMinimize == InitMinimize /\ [][NextMinimize]_vars

\* A pass of the minimizer loop that ran to its end, for the file it took.
PassCompleted == minPc = "loop" /\ fileIdx' = fileIdx + 1
PassFile == fileInfos[fileIdx + 1]

\* C31: in every pass of the minimizer loop that runs to its end, the file
\* is kept in the corpus and in the cache, and bestCoverage becomes the new
\* coverage, exactly when the coverage measured with the file is strictly
\* greater than bestCoverage; otherwise the file is gone from both
\* directories and bestCoverage stays, and the warning is logged exactly
\* when the coverage decreased.
C31_KeptIffCoverageGrows ==
    [][PassCompleted =>
         /\ (PassFile \in DOMAIN corpusTargetDir' /\ PassFile \in cacheCorpusDir'
               /\ bestCoverage' = newCoverage')
              <=> newCoverage' > bestCoverage
         /\ ~(newCoverage' > bestCoverage) =>
              /\ PassFile \notin DOMAIN corpusTargetDir'
              /\ PassFile \notin cacheCorpusDir'
              /\ bestCoverage' = bestCoverage
              /\ removedCount' = removedCount + 1
              /\ (warned' = warned + 1) <=> (newCoverage' < bestCoverage)
              /\ warned' \in {warned, warned + 1}]_vars

\* A run that kept a file, deleted one for equal coverage and deleted one
\* after the coverage decreased.
C31_Witness ==
    /\ minPc = "done"
    /\ keptOn.cache # {}
    /\ warned = 1
    /\ removedCount = 2

\* MinimizeCorpus returns nil in this step.
ReturnsNil == minPc = "loop" /\ minPc' = "done"

\* C32: bestCoverage never decreases, and when MinimizeCorpus returns nil
\* the files left in the corpus directory are the files the loop left in
\* the cache, the last measurement of exactly these files gave the final
\* bestCoverage, and the final bestCoverage is the greatest coverage any
\* measurement of the run gave.
C32_BestCoveragePreserved ==
    [][/\ bestCoverage' >= bestCoverage
       /\ ReturnsNil =>
            /\ DOMAIN corpusTargetDir = cacheCorpusDir
            /\ DOMAIN corpusTargetDir' = cacheCorpusDir
            /\ cacheCorpusDir # {} =>
                 /\ keptOn.cache = cacheCorpusDir
                 /\ keptOn.coverage = bestCoverage
            /\ \A c \in observed : c <= bestCoverage
            /\ bestCoverage \in observed \cup {0}
            /\ bestCoverage' = bestCoverage]_vars

\* A run that returned nil after keeping two files, the second for a
\* greater coverage, and deleting a third.
C32_Witness ==
    /\ minPc = "done"
    /\ Cardinality(keptOn.cache) = 2
    /\ DOMAIN corpusTargetDir = keptOn.cache
    /\ bestCoverage = 2
    /\ removedCount = 1

\* The files of the corpus directory the loop has not taken yet: a file it
\* took is in the cache or gone from the corpus.
NotTaken == DOMAIN corpusTargetDir \ cacheCorpusDir

ContainerGracePeriod == 20

SyncDurations == {180, 600, 6 * OneHour}

TimedInputs ==
    {<<s, w, t>> : s \in SyncDurations, w \in 1..MaxBudgetWorkers,
                   t \in 1..MaxBudgetTargets}

InitTimed ==
    /\ InitProgram
    /\ NoCorpus
    /\ NoFuzzOutput
    /\ \E b \in TimedInputs :
        /\ syncFrequency = b[1]
        /\ numWorkers = b[2]
        /\ totalTargets = b[3]
    /\ iterations = 0

timedFrame == <<parentCanceled, groupCanceled, ctrlVars, sched, totalTargets,
                indexUpdates, syncFrequency, numWorkers, iterations,
                workerVars, issueVars, histVars, enqueued, dequeued,
                reportVars, masterVars, crashVars, minVars, storeVars>>

Running(w) == busyUntil[w] >= 0
Waiting(w) == busyUntil[w] = -1
CycleOpen == perTargetTimeout > 0 /\ ~cycleCanceled /\ schedResult = "none"

\* runFuzzingCycles sets the timer of the cycle; scheduleFuzzing fills the
\* queue, computes the budget and starts the workers.
TimedLaunch ==
    /\ perTargetTimeout = -1
    /\ perTargetTimeout' =
           calculateFuzzSeconds(syncFrequency, numWorkers, totalTargets)
    /\ cycleTimer' = cycleDeadline(syncFrequency)
    /\ taskQueue' = EnqueueTargets(NewTaskQueue, 1, totalTargets)
    /\ busyUntil' = [w \in 1..numWorkers |-> -1]
    /\ UNCHANGED <<timedFrame, cycleCanceled, schedResult, clock>>

\* runWorker: the next task and its fuzzCtx, or the return on an empty
\* queue.
TimedDequeue(w) ==
    /\ CycleOpen
    /\ Waiting(w)
    /\ taskQueue' = DequeueRest(taskQueue)
    /\ busyUntil' = [busyUntil EXCEPT ![w] =
                        IF DequeueOk(taskQueue)
                          THEN clock + perTargetTimeout + ContainerGracePeriod
                          ELSE -2]
    /\ UNCHANGED <<timedFrame, cycleCanceled, schedResult, clock,
                   perTargetTimeout, cycleTimer>>

\* The fuzz run reports a crash: executeFuzzTarget returns at once.
TimedCrash(w) ==
    /\ CycleOpen
    /\ Running(w)
    /\ busyUntil' = [busyUntil EXCEPT ![w] = -1]
    /\ UNCHANGED <<timedFrame, cycleCanceled, schedResult, clock,
                   perTargetTimeout, cycleTimer, taskQueue>>

\* Time passes to the earliest deadline of a fuzz run, when no worker has
\* anything to do before that and the timer of the cycle is not earlier.
TimedExpire(w) ==
    /\ CycleOpen
    /\ Running(w)
    /\ \A v \in DOMAIN busyUntil :
          /\ ~Waiting(v)
          /\ Running(v) => busyUntil[w] <= busyUntil[v]
    /\ Millis(busyUntil[w]) <= cycleTimer
    /\ clock' = busyUntil[w]
    /\ busyUntil' = [busyUntil EXCEPT ![w] = -1]
    /\ UNCHANGED <<timedFrame, cycleCanceled, schedResult, perTargetTimeout,
                   cycleTimer, taskQueue>>

\* Time passes to the timer of the cycle, when no fuzz run ends before it:
\* the case time.After of runFuzzingCycles, which cancels the cycle.
TimedDeadline ==
    /\ CycleOpen
    /\ \E v \in DOMAIN busyUntil : Running(v)
    /\ \A v \in DOMAIN busyUntil :
          /\ ~Waiting(v)
          /\ Running(v) => cycleTimer <= Millis(busyUntil[v])
    /\ clock' = cycleTimer \div 1000
    /\ cycleCanceled' = TRUE
    /\ UNCHANGED <<timedFrame, schedResult, perTargetTimeout, cycleTimer,
                   taskQueue, busyUntil>>

\* Every worker has returned: the scheduler sends nil ("All workers
\* completed early").
TimedFinish ==
    /\ CycleOpen
    /\ \A v \in DOMAIN busyUntil : busyUntil[v] = -2
    /\ schedResult' = "nil"
    /\ UNCHANGED <<timedFrame, cycleCanceled, perTargetTimeout, cycleTimer,
                   taskQueue, busyUntil, clock>>

NextTimed ==
    \/ TimedLaunch
    \/ TimedDeadline
    \/ TimedFinish
    \/ \E w \in 1..MaxBudgetWorkers :
        \/ w \in DOMAIN busyUntil /\ TimedDequeue(w)
        \/ w \in DOMAIN busyUntil /\ TimedCrash(w)
        \/ w \in DOMAIN busyUntil /\ TimedExpire(w)

SpecTimed == InitTimed /\ [][NextTimed]_vars

\* C36: the timer of the cycle never fires while the scheduler is still at
\* work: with the per-target budget, the 20 s added to each run and the
\* grace period of the cycle, every worker has returned before it.
C36_FinishesBeforeDeadline == ~cycleCanceled

(***************************************************************************)
(* Prepare harness: steps 1 and 2 of one cycle of runFuzzingCycles over    *)
(* any content of the S3 bucket and any leftovers of an earlier cycle in   *)
(* the workspace.  An object key is its name and its extension; the bucket *)
(* holds the corpus archive under cfg.Project.CorpusKey, the JSON history  *)
(* of the targets and the HTML pages uploadReports has put there.          *)
(***************************************************************************)
zipKey == [name |-> "repo_corpus", ext |-> ".zip"]
JsonKeys == {[name |-> "index", ext |-> ".json"],
             [name |-> "FuzzFoo", ext |-> ".json"]}
ObjectKeys == {zipKey, [name |-> "index", ext |-> ".html"]} \cup JsonKeys

\* filepath.Ext
Ext(key) == key.ext

InitPrepare ==
    /\ InitProgram
    /\ NoCorpus
    /\ NoFuzzOutput
    /\ syncFrequency = OneHour
    /\ numWorkers = 1
    /\ totalTargets = 0
    /\ iterations = 0

prepFrame == <<ctxVars, ctrlVars, schedVars, cfgVars, taskQueue, workerVars,
               issueVars, histVars, enqueued, dequeued, reportVars,
               masterVars, crashVars, minVars, timeVars>>

\* The loop of runFuzzingCycles is entered: what the bucket holds and what an
\* earlier cycle has left in the workspace are not the program's choice.
PrepEnter ==
    /\ prepPc = "idle"
    /\ prepPc' = "cleanup"
    /\ bucket' \in SUBSET ObjectKeys
    /\ corpusDir' \in {"none", "stale"}
    /\ reportDir' \in SUBSET JsonKeys
    /\ UNCHANGED <<pageItems, prepFrame>>

\* cleanupProjectCorpusAndReport: the project, corpus and report
\* directories of previous runs are removed.
PrepCleanup ==
    /\ prepPc = "cleanup"
    /\ prepPc' = "clone"
    /\ corpusDir' = "none"
    /\ reportDir' = {}
    /\ UNCHANGED <<bucket, pageItems, prepFrame>>

\* git.PlainCloneContext, then NewS3Store: either may fail, and
\* runFuzzingCycles returns the error.
PrepClone ==
    /\ prepPc = "clone"
    /\ \E cloned, loaded \in BOOLEAN :
        prepPc' = IF cloned /\ loaded THEN "corpus" ELSE "failed"
    /\ UNCHANGED <<bucket, corpusDir, reportDir, pageItems, prepFrame>>

\* downloadCorpusAndReports up to the unzip: downloadObject for zipKey
\* returns an error, (true, nil) on NoSuchKey, or (false, nil).  On
\* (true, nil) downloadCorpusAndReports returns nil at once.
PrepDownloadCorpus ==
    /\ prepPc = "corpus"
    /\ \E err \in BOOLEAN :
        prepPc' = IF err THEN "failed"
                  ELSE IF zipKey \notin bucket THEN "launch"
                  ELSE "unzip"
    /\ UNCHANGED <<bucket, corpusDir, reportDir, pageItems, prepFrame>>

\* s3s.unzip()
PrepUnzip ==
    /\ prepPc = "unzip"
    /\ \E ok \in BOOLEAN :
        IF ok THEN prepPc' = "list" /\ corpusDir' = "fresh"
              ELSE prepPc' = "failed" /\ corpusDir' = corpusDir
    /\ UNCHANGED <<bucket, reportDir, pageItems, prepFrame>>

\* downloadReports: paginator.NextPage lists the objects of the bucket.
PrepListReports ==
    /\ prepPc = "list"
    /\ \E ok \in BOOLEAN :
        IF ok THEN prepPc' = "reports" /\ pageItems' = bucket
              ELSE prepPc' = "failed" /\ pageItems' = pageItems
    /\ UNCHANGED <<bucket, corpusDir, reportDir, prepFrame>>

\* downloadReports: one object of the page.  Keys without the .json
\* extension are skipped, the others are downloaded under reportDir.
PrepDownloadReport ==
    /\ prepPc = "reports"
    /\ \E key \in pageItems :
        /\ pageItems' = pageItems \ {key}
        /\ IF Ext(key) # ".json"
           THEN UNCHANGED <<prepPc, reportDir>>
           ELSE \E ok \in BOOLEAN :
                    IF ok THEN /\ reportDir' = reportDir \cup {key}
                               /\ prepPc' = prepPc
                          ELSE /\ reportDir' = reportDir
                               /\ prepPc' = "failed"
    /\ UNCHANGED <<bucket, corpusDir, prepFrame>>

\* downloadReports and downloadCorpusAndReports return nil.
PrepReportsDone ==
    /\ prepPc = "reports"
    /\ pageItems = {}
    /\ prepPc' = "launch"
    /\ UNCHANGED <<bucket, corpusDir, reportDir, pageItems, prepFrame>>

\* Step 3: the scheduler goroutine of the cycle is started.
PrepLaunch ==
    /\ prepPc = "launch"
    /\ prepPc' = "started"
    /\ UNCHANGED <<bucket, corpusDir, reportDir, pageItems, prepFrame>>

NextPrepare ==
    \/ PrepEnter
    \/ PrepCleanup
    \/ PrepClone
    \/ PrepDownloadCorpus
    \/ PrepUnzip
    \/ PrepListReports
    \/ PrepDownloadReport
    \/ PrepReportsDone
    \/ PrepLaunch

SpecPrepare == InitPrepare /\ [][NextPrepare]_vars

\* The JSON history files of the bucket.
History == {key \in bucket : Ext(key) = ".json"}

\* C37: when the scheduler of a cycle starts, the corpus has been downloaded
\* and unzipped unless the bucket holds no corpus object, and every JSON
\* history file of the bucket has been downloaded into the report directory.
C37_HistoryHydrated ==
    prepPc = "started" =>
        /\ zipKey \in bucket => corpusDir = "fresh"
        /\ History \subseteq reportDir

\* The positions of the select of step 4 in which the controller has not yet
\* received the result of the cycle.
Settling == {"select", "drain", "shutdown"}

\* C38: the scheduler sends exactly one value on errChan on every path and
\* the controller receives exactly once per cycle on each of its three
\* paths: the channel never holds more than one value, it is empty as long
\* as the scheduler runs (its send never blocks), it holds the result
\* whenever the scheduler has returned and the controller still waits, the
\* scheduler's return and its send are one step, and the controller leaves
\* the select exactly by receiving.
C38_OneSendOneReceive ==
    /\ [](Len(errChan) <= 1)
    /\ [](sched \notin {"idle", "done"} => errChan = <<>>)
    /\ []((sched = "done" /\ ctrl \in Settling) => Len(errChan) = 1)
    /\ [][(sched # "done" /\ sched' = "done")
            <=> (Len(errChan') = Len(errChan) + 1)]_vars
    /\ [][(ctrl \in Settling /\ ctrl' \notin Settling)
            <=> (Len(errChan') = Len(errChan) - 1)]_vars

\* On each of the three paths the controller has received the one value the
\* scheduler has sent.
C38_Witness ==
    /\ sched = "done"
    /\ schedResult # "none"
    /\ errChan = <<>>
    /\ \/ ctrl = "persist" /\ schedResult = "nil"
       \/ ctrl = "done" /\ parentCanceled /\ ret = schedResult

\* The scheduler has reported ok and the context of the cycle is live.
ReportedOkUncanceled ==
    sched = "done" /\ schedResult = "nil" /\ ~schedulerCtxDone

\* The queue is empty, every worker has returned and no sandbox runs.
NothingLeft ==
    /\ Length(taskQueue) = 0
    /\ WorkersDrained
    /\ \A w \in Workers : running[w] = 0

\* A worker starts the sandbox of the fuzz run of its task.
FuzzRunStarts(w) == wpc[w] = "fuzz" /\ wpc'[w] = "select"

\* C39 (as stated): when the scheduler reports ok in an uncanceled cycle, no
\* task remains, no worker runs, and every discovered target was dequeued
\* once and fuzzed once.  A sandbox that could not be started before the
\* deadline of its own fuzz context refutes it: the target is taken for
\* completed without an error.
C39_EveryTargetFuzzedOnce ==
    ReportedOkUncanceled =>
        /\ NothingLeft
        /\ \A t \in 1..totalTargets :
            dequeues[t] = 1 /\ targetDone[t] = "reported"

\* C39 (amended): when the scheduler reports ok in an uncanceled cycle, no
\* task remains in the queue and no worker or sandbox runs; every discovered
\* target was dequeued exactly once and either fuzzed, its run ended and
\* reported, or given up because its sandbox did not start before the fuzz
\* context was done; and the fuzz run of a task starts at most once, for the
\* one worker that holds the task.
C39_EveryTargetTakenOnce ==
    /\ [](ReportedOkUncanceled =>
            /\ NothingLeft
            /\ \A t \in 1..totalTargets :
                /\ dequeues[t] = 1
                /\ targetDone[t] \in {"reported", "notStarted"})
    /\ [][\A w \in Workers :
            FuzzRunStarts(w) =>
                /\ dequeues[cur[w]] = 1
                /\ targetDone[cur[w]] = "none"
                /\ \A v \in Workers \ {w} : cur[v] # cur[w]]_vars

\* Two workers have shared the targets of a cycle that ended ok, one target
\* fuzzed and reported, the other never started.
C39_Witness ==
    /\ ReportedOkUncanceled
    /\ totalTargets = MaxTargets
    /\ numWorkers = NumWorkers
    /\ \E t \in Tasks : targetDone[t] = "reported"
    /\ \E t \in Tasks : targetDone[t] = "notStarted"

\* The sandboxes of the workers 1..n that are started and not yet stopped.
RECURSIVE InFlight(_)
InFlight(n) == IF n = 0 THEN 0 ELSE running[n] + InFlight(n - 1)

\* C40: at every moment at most numWorkers sandboxes, of verification or of
\* fuzz runs, are started and not yet stopped, each worker holding at most
\* one; and a worker starts a sandbox only when it holds none, Stop having
\* been called for the one it started before.
C40_AtMostNumWorkersSandboxes ==
    /\ [](InFlight(NumWorkers) <= numWorkers)
    /\ [](\A w \in Workers : running[w] \in {0, 1})
    /\ [][\A w \in Workers :
            running'[w] > running[w] =>
                running[w] = 0 /\ running'[w] = 1]_vars

\* As many sandboxes run as there are workers, and a worker runs the
\* sandbox of its second task, the one of its first task started and stopped.
C40_Witness ==
    /\ InFlight(NumWorkers) = numWorkers
    /\ \E t \in Tasks, w \in Workers :
        /\ targetDone[t] = "reported"
        /\ cur[w] \notin {0, t}
        /\ wpc[w] = "select"
        /\ running[w] = 1

====
